---- MODULE Spec2Model ----
(***************************************************************************)
(* NudgeAI: the rule-based task extractor (backend/task_extractor.py) and  *)
(* the chat intent classifier (backend/ai_agent.py).                       *)
(*                                                                         *)
(* Text is modelled by TLA+ strings; Python's `in`, lower() and slicing    *)
(* are computed character by character.  datetime.now() is a day ordinal   *)
(* (days since 2026-01-01) and strftime("%Y-%m-%d") renders it.            *)
(***************************************************************************)
EXTENDS Integers, Sequences, FiniteSets, TLC

VARIABLES
    content,             \* extract_task argument
    source,              \* extract_task argument
    subject_or_channel,  \* extract_task argument
    now,                 \* datetime.now(), as a day ordinal
    confirmed_tasks,     \* module-level list of task_extractor.py
    ret,                 \* outcome of the last extract_task call
    pc,                  \* "idle" | "call" | "done"
    agent_class,         \* "TaskAgent" | "NLPAgent": class of the agent object
    nlp,                 \* ai_agent._nlp is loaded (spaCy and a model are available)
    roots,               \* lemmas of the ROOT tokens spaCy reports for user_message
    task_description,    \* get_response argument
    user_message,        \* get_response argument
    resp,                \* value returned by get_response
    ipc,                 \* "call" | "done"
    file,                \* data/tasks.json: [kind, data]
    exec,                \* per caller: the executor action under way
    hist,                \* reads and writes of tasks.json so far, oldest first
    mpc,                 \* position of the extraction pass (main.py)
    all_tasks,           \* ui/dashboard.py: in-memory copy of the collection
    pending_tasks,       \* ui/dashboard.py: rendered pending list
    completed_tasks,     \* ui/dashboard.py: rendered completed list
    dpc                  \* position of the dashboard script run

extractVars == <<content, source, subject_or_channel, now, confirmed_tasks, ret, pc>>
intentVars == <<agent_class, nlp, roots, task_description, user_message, resp, ipc>>
storeVars == <<file, exec, hist, mpc>>
dashVars == <<all_tasks, pending_tasks, completed_tasks, dpc>>
vars == <<extractVars, intentVars, storeVars, dashVars>>

(***************************************************************************)
(* Bounds                                                                  *)
(***************************************************************************)
MaxLog == 2      \* calls followed in the audit-log specification
MaxTicks == 1    \* clock ticks followed in the audit-log specification
MaxRoots == 2    \* ROOT tokens (sentences) in one user message
MaxCalls == 2    \* process_task_action calls followed in the store specification
MaxChats == 1    \* get_ai_response calls followed in the chat specification
MaxTasks == 3    \* tasks in a collection the dashboard renders

(***************************************************************************)
(* Python values and string primitives                                     *)
(***************************************************************************)
None == "<None>"
NoRet == [raised |-> FALSE, val |-> None]

Min(a, b) == IF a < b THEN a ELSE b

\* x or ""
OrEmpty(s) == IF s = None THEN "" ELSE s

\* needle in hay
Contains(hay, needle) ==
    \E i \in 1..(Len(hay) - Len(needle) + 1) :
        SubSeq(hay, i, i + Len(needle) - 1) = needle

UpperAlphabet == "ABCDEFGHIJKLMNOPQRSTUVWXYZ"
LowerAlphabet == "abcdefghijklmnopqrstuvwxyz"

\* the lower-case letter of each upper-case letter
LowerTable ==
    [c \in {SubSeq(UpperAlphabet, i, i) : i \in 1..26} |->
        LET i == CHOOSE j \in 1..26 : SubSeq(UpperAlphabet, j, j) = c
        IN  SubSeq(LowerAlphabet, i, i)]

LowerChar(c) == IF c \in DOMAIN LowerTable THEN LowerTable[c] ELSE c

\* str.lower()
RECURSIVE Lower(_)
Lower(s) ==
    IF Len(s) = 0 THEN ""
    ELSE LowerChar(SubSeq(s, 1, 1)) \o Lower(SubSeq(s, 2, Len(s)))

SliceLimit == 50

\* s[:50]
Slice50(s) == SubSeq(s, 1, Min(SliceLimit, Len(s)))

(***************************************************************************)
(* (datetime.now() + timedelta(days=n)).strftime("%Y-%m-%d")               *)
(***************************************************************************)
CumDays == <<0, 31, 59, 90, 120, 151, 181, 212, 243, 273, 304, 334, 365>>

Pad2(n) == IF n < 10 THEN "0" \o ToString(n) ELSE ToString(n)

strftime(ord) ==
    LET year == 2026 + (ord \div 365)
        doy  == ord % 365
        m    == CHOOSE k \in 1..12 : CumDays[k] <= doy /\ doy < CumDays[k + 1]
    IN  ToString(year) \o "-" \o Pad2(m) \o "-" \o Pad2(doy - CumDays[m] + 1)

DaysFromNow(t, n) == strftime(t + n)

(***************************************************************************)
(* The email rule chain: predicate of each branch, in source order.        *)
(* st = subject_text, ct = combined_text.                                  *)
(***************************************************************************)
NumEmailRules == 25
NoTaskRule == 24
PoliteRule == 25

EmailPred(i, st, ct) ==
    CASE i = 1  -> Contains(ct, "revised document") \/ Contains(ct, "send the revised document")
      [] i = 2  -> Contains(ct, "follow up with the client")
                   \/ (Contains(ct, "follow up") /\ Contains(ct, "client"))
      [] i = 3  -> Contains(st, "urgent") \/ Contains(ct, "asap") \/ Contains(ct, "immediately")
      [] i = 4  -> Contains(ct, "password reset")
                   \/ (Contains(ct, "password") /\ Contains(ct, "reset"))
      [] i = 5  -> Contains(ct, "phishing") \/ Contains(ct, "security")
      [] i = 6  -> Contains(ct, "revisions")
                   \/ (Contains(ct, "update") /\ Contains(ct, "version"))
      [] i = 7  -> Contains(ct, "please review")
                   \/ (Contains(ct, "review") /\ ~Contains(ct, "resolved"))
      [] i = 8  -> Contains(ct, "please check")
                   \/ (Contains(ct, "check") /\ ~Contains(ct, "deployment"))
      [] i = 9  -> Contains(ct, "quote") \/ Contains(ct, "proposal")
      [] i = 10 -> Contains(ct, "confirm")
                   \/ (Contains(ct, "approval") /\ Contains(ct, "go-live"))
      [] i = 11 -> Contains(ct, "schedule")
                   \/ (Contains(ct, "meeting")
                       /\ (Contains(ct, "schedule") \/ Contains(ct, "propose")))
      [] i = 12 -> Contains(ct, "invoice") \/ Contains(ct, "payment") \/ Contains(ct, "billing")
      [] i = 13 -> Contains(ct, "feedback")
                   \/ (Contains(ct, "report") /\ ~Contains(ct, "outage"))
                   \/ Contains(ct, "summary") \/ Contains(ct, "submit")
      [] i = 14 -> Contains(ct, "training") \/ Contains(ct, "compliance")
                   \/ Contains(ct, "acknowledge")
                   \/ (Contains(ct, "policy") /\ Contains(ct, "read"))
      [] i = 15 -> Contains(ct, "contract")
                   \/ (Contains(ct, "review") /\ Contains(ct, "contract"))
      [] i = 16 -> Contains(ct, "data")
                   \/ (Contains(ct, "export") /\ Contains(ct, "data"))
      [] i = 17 -> Contains(ct, "approve")
                   /\ (Contains(ct, "post") \/ Contains(ct, "copy") \/ Contains(ct, "campaign"))
      [] i = 18 -> Contains(ct, "incident") \/ Contains(ct, "outage")
      [] i = 19 -> Contains(ct, "change request") \/ Contains(ct, "scope change")
      [] i = 20 -> Contains(ct, "recruit") \/ Contains(ct, "research") \/ Contains(ct, "study")
      [] i = 21 -> Contains(ct, "press")
      [] i = 22 -> Contains(ct, "finalize") \/ Contains(ct, "sow")
      [] i = 23 -> Contains(ct, "renewal")
      [] i = 24 -> Contains(ct, "no action") \/ Contains(ct, "fyi") \/ Contains(ct, "digest")
                   \/ Contains(ct, "resolved") \/ Contains(ct, "deployment")
      [] i = 25 -> \E word \in {"can you", "could you", "please", "would you"} :
                       Contains(ct, word)

\* the values a branch assigns to (task, assignee, deadline, confidence)
Fields(task, assignee, deadline, confidence) ==
    [task |-> task, assignee |-> assignee, deadline |-> deadline, confidence |-> confidence]

\* the initial confidence set to "medium"
Defaults_Medium == Fields(None, "You", None, "medium")

\* lines 20-23
Defaults == Fields(None, "You", None, "low")

\* branches whose task text is built from subject_or_channel[:50]
EchoRules == {3, 7, 8, 25}

EmailTemplate(i, sc, t) ==
    CASE i = 1  -> Fields("Send the revised document", "Ravindu", "Friday", "high")
      [] i = 2  -> Fields("Follow up with the client", "Ravindu", DaysFromNow(t, 1), "high")
      [] i = 3  -> Fields("Complete urgent task: " \o Slice50(sc), "You", "Today", "high")
      [] i = 4  -> Fields("Update security credentials", "You", DaysFromNow(t, 2), "high")
      [] i = 5  -> Fields("Update security and change credentials", "You", "Today", "high")
      [] i = 6  -> Fields("Revise and update document/proposal", "You", DaysFromNow(t, 3), "medium")
      [] i = 7  -> Fields("Review: " \o Slice50(sc), "You", DaysFromNow(t, 2), "medium")
      [] i = 8  -> Fields("Check and verify: " \o Slice50(sc), "You", DaysFromNow(t, 2), "medium")
      [] i = 9  -> Fields("Prepare quote/proposal", "You", DaysFromNow(t, 3), "medium")
      [] i = 10 -> Fields("Confirm approval/signature", "You", DaysFromNow(t, 1), "high")
      [] i = 11 -> Fields("Schedule meeting/call", "You", DaysFromNow(t, 1), "medium")
      [] i = 12 -> Fields("Process invoice/payment/billing", "You", DaysFromNow(t, 5), "medium")
      [] i = 13 -> Fields("Submit feedback/report/summary", "You", DaysFromNow(t, 2), "medium")
      [] i = 14 -> Fields("Complete training/acknowledge policy", "You", DaysFromNow(t, 7), "medium")
      [] i = 15 -> Fields("Review and finalize contract", "You", DaysFromNow(t, 3), "medium")
      [] i = 16 -> Fields("Prepare and send data export", "You", DaysFromNow(t, 1), "medium")
      [] i = 17 -> Fields("Approve marketing content", "You", DaysFromNow(t, 1), "medium")
      [] i = 18 -> Fields("Create incident/outage report", "You", DaysFromNow(t, 2), "medium")
      [] i = 19 -> Fields("Estimate impact and respond to change request", "You",
                          DaysFromNow(t, 2), "medium")
      [] i = 20 -> Fields("Recruit users/prepare research", "You", DaysFromNow(t, 4), "medium")
      [] i = 21 -> Fields("Review and edit press release", "You", DaysFromNow(t, 2), "medium")
      [] i = 22 -> Fields("Finalize statement of work", "You", DaysFromNow(t, 3), "medium")
      [] i = 23 -> Fields("Review and approve contract renewal", "You", DaysFromNow(t, 10), "medium")
      [] i = 24 -> Fields(None, "You", None, "low")
      [] i = 25 -> Fields("Review and respond: " \o Slice50(sc), "You", DaysFromNow(t, 2), "low")

(***************************************************************************)
(* extract_task                                                            *)
(***************************************************************************)
Raise(exc) == [raised |-> TRUE, val |-> exc]

\* the assignments of branch i; "..." + subject_or_channel[:50] raises
\* TypeError when subject_or_channel is None
Branch(i, sc, t) ==
    IF i \in EchoRules /\ sc = None
    THEN Raise("TypeError")
    ELSE [raised |-> FALSE, val |-> EmailTemplate(i, sc, t)]

\* lines 145-153 swapped: directive words tested before the no-action markers
CatchAll_PoliteFirst(sc, st, ct, t) ==
    IF EmailPred(PoliteRule, st, ct) THEN Branch(PoliteRule, sc, t)
    ELSE IF EmailPred(NoTaskRule, st, ct) THEN Branch(NoTaskRule, sc, t)
    ELSE [raised |-> FALSE, val |-> Defaults]

\* the last two branches of the email chain, and the fall-through
CatchAll(sc, st, ct, t) ==
    IF EmailPred(NoTaskRule, st, ct) THEN Branch(NoTaskRule, sc, t)
    ELSE IF EmailPred(PoliteRule, st, ct) THEN Branch(PoliteRule, sc, t)
    ELSE [raised |-> FALSE, val |-> Defaults]

\* the chain with the invoice branch moved in front of the first branch
EmailChain_InvoiceFirst(sc, st, ct, t) ==
    IF EmailPred(12, st, ct) THEN Branch(12, sc, t)
    ELSE IF EmailPred(1, st, ct) THEN Branch(1, sc, t)
    ELSE IF EmailPred(2, st, ct) THEN Branch(2, sc, t)
    ELSE IF EmailPred(3, st, ct) THEN Branch(3, sc, t)
    ELSE IF EmailPred(4, st, ct) THEN Branch(4, sc, t)
    ELSE IF EmailPred(5, st, ct) THEN Branch(5, sc, t)
    ELSE IF EmailPred(6, st, ct) THEN Branch(6, sc, t)
    ELSE IF EmailPred(7, st, ct) THEN Branch(7, sc, t)
    ELSE IF EmailPred(8, st, ct) THEN Branch(8, sc, t)
    ELSE IF EmailPred(9, st, ct) THEN Branch(9, sc, t)
    ELSE IF EmailPred(10, st, ct) THEN Branch(10, sc, t)
    ELSE IF EmailPred(11, st, ct) THEN Branch(11, sc, t)
    ELSE IF EmailPred(13, st, ct) THEN Branch(13, sc, t)
    ELSE IF EmailPred(14, st, ct) THEN Branch(14, sc, t)
    ELSE IF EmailPred(15, st, ct) THEN Branch(15, sc, t)
    ELSE IF EmailPred(16, st, ct) THEN Branch(16, sc, t)
    ELSE IF EmailPred(17, st, ct) THEN Branch(17, sc, t)
    ELSE IF EmailPred(18, st, ct) THEN Branch(18, sc, t)
    ELSE IF EmailPred(19, st, ct) THEN Branch(19, sc, t)
    ELSE IF EmailPred(20, st, ct) THEN Branch(20, sc, t)
    ELSE IF EmailPred(21, st, ct) THEN Branch(21, sc, t)
    ELSE IF EmailPred(22, st, ct) THEN Branch(22, sc, t)
    ELSE IF EmailPred(23, st, ct) THEN Branch(23, sc, t)
    ELSE CatchAll(sc, st, ct, t)

\* the if/elif chain of source == "email"
EmailChain(sc, st, ct, t) ==
    IF EmailPred(1, st, ct) THEN Branch(1, sc, t)
    ELSE IF EmailPred(2, st, ct) THEN Branch(2, sc, t)
    ELSE IF EmailPred(3, st, ct) THEN Branch(3, sc, t)
    ELSE IF EmailPred(4, st, ct) THEN Branch(4, sc, t)
    ELSE IF EmailPred(5, st, ct) THEN Branch(5, sc, t)
    ELSE IF EmailPred(6, st, ct) THEN Branch(6, sc, t)
    ELSE IF EmailPred(7, st, ct) THEN Branch(7, sc, t)
    ELSE IF EmailPred(8, st, ct) THEN Branch(8, sc, t)
    ELSE IF EmailPred(9, st, ct) THEN Branch(9, sc, t)
    ELSE IF EmailPred(10, st, ct) THEN Branch(10, sc, t)
    ELSE IF EmailPred(11, st, ct) THEN Branch(11, sc, t)
    ELSE IF EmailPred(12, st, ct) THEN Branch(12, sc, t)
    ELSE IF EmailPred(13, st, ct) THEN Branch(13, sc, t)
    ELSE IF EmailPred(14, st, ct) THEN Branch(14, sc, t)
    ELSE IF EmailPred(15, st, ct) THEN Branch(15, sc, t)
    ELSE IF EmailPred(16, st, ct) THEN Branch(16, sc, t)
    ELSE IF EmailPred(17, st, ct) THEN Branch(17, sc, t)
    ELSE IF EmailPred(18, st, ct) THEN Branch(18, sc, t)
    ELSE IF EmailPred(19, st, ct) THEN Branch(19, sc, t)
    ELSE IF EmailPred(20, st, ct) THEN Branch(20, sc, t)
    ELSE IF EmailPred(21, st, ct) THEN Branch(21, sc, t)
    ELSE IF EmailPred(22, st, ct) THEN Branch(22, sc, t)
    ELSE IF EmailPred(23, st, ct) THEN Branch(23, sc, t)
    ELSE CatchAll(sc, st, ct, t)

\* line 157
CalendarPred(text) == Contains(text, "prepare")

\* the rule tested on content and subject together
CalendarChain_Combined(text, combined_text, t) ==
    IF CalendarPred(combined_text)
    THEN [raised |-> FALSE,
          val |-> Fields("Prepare meeting summary", "You", DaysFromNow(t, 1), "high")]
    ELSE [raised |-> FALSE, val |-> Defaults]

\* source == "calendar"
CalendarChain(text, combined_text, t) ==
    IF CalendarPred(text)
    THEN [raised |-> FALSE,
          val |-> Fields("Prepare meeting summary", "You", DaysFromNow(t, 1), "high")]
    ELSE [raised |-> FALSE, val |-> Defaults]

\* lines 165 and 170
SlackPred(i, text) ==
    CASE i = 1 -> Contains(text, "check") /\ Contains(text, "logs")
      [] i = 2 -> Contains(text, "deployment")

\* the deployment branch leaving deadline unset
SlackChain_NoDeadline(text, t) ==
    IF SlackPred(1, text)
    THEN [raised |-> FALSE,
          val |-> Fields("Check server logs", "You", DaysFromNow(t, 1), "medium")]
    ELSE IF SlackPred(2, text)
    THEN [raised |-> FALSE,
          val |-> Fields("Update deployment checklist", "You", None, "medium")]
    ELSE [raised |-> FALSE, val |-> Defaults]

\* source == "slack"
SlackChain(text, t) ==
    IF SlackPred(1, text)
    THEN [raised |-> FALSE,
          val |-> Fields("Check server logs", "You", DaysFromNow(t, 1), "medium")]
    ELSE IF SlackPred(2, text)
    THEN [raised |-> FALSE,
          val |-> Fields("Update deployment checklist", "You", DaysFromNow(t, 2), "medium")]
    ELSE [raised |-> FALSE, val |-> Defaults]

\* "if task:" -- None and the empty string are falsy
Truthy(task) == task # None /\ task # ""

\* the entry appended to confirmed_tasks
LogEntry(f, src, sc, t) ==
    [task |-> f.task, assignee |-> f.assignee, deadline |-> f.deadline,
     confidence |-> f.confidence, added_on |-> t, source |-> src,
     subject_or_channel |-> sc]

\* lines 176-186: confirmed_tasks after the call that computed the fields f
SaveToMemory(log, f, src, sc, t) ==
    IF Truthy(f.task) THEN Append(log, LogEntry(f, src, sc, t)) ELSE log

\* the returned dictionary
Result(f, src, sc) ==
    [task |-> f.task, assignee |-> f.assignee, deadline |-> f.deadline,
     confidence |-> f.confidence, source |-> src, subject_or_channel |-> sc]

\* a call that skips a task already recorded in confirmed_tasks
extract_task_Dedup(c, src, sc, t, log) ==
    LET text          == Lower(OrEmpty(c))
        subject_text  == Lower(OrEmpty(sc))
        combined_text == text \o " " \o subject_text
        out == IF src = "email" THEN EmailChain(sc, subject_text, combined_text, t)
               ELSE IF src = "calendar" THEN CalendarChain(text, combined_text, t)
               ELSE IF src = "slack" THEN SlackChain(text, t)
               ELSE [raised |-> FALSE, val |-> Defaults]
        seen == \E k \in 1..Len(log) : log[k].task = out.val.task
        f == IF seen THEN Defaults ELSE out.val
    IN  IF out.raised
        THEN [outcome |-> out, confirmed |-> log]
        ELSE [outcome |-> [raised |-> FALSE, val |-> Result(f, src, sc)],
              confirmed |-> SaveToMemory(log, f, src, sc, t)]

\* extract_task(content, source, subject_or_channel) called at clock t while
\* the module-level list holds log: the outcome and the list afterwards
extract_task(c, src, sc, t, log) ==
    LET text          == Lower(OrEmpty(c))
        subject_text  == Lower(OrEmpty(sc))
        combined_text == text \o " " \o subject_text
        out == IF src = "email" THEN EmailChain(sc, subject_text, combined_text, t)
               ELSE IF src = "calendar" THEN CalendarChain(text, combined_text, t)
               ELSE IF src = "slack" THEN SlackChain(text, t)
               ELSE [raised |-> FALSE, val |-> Defaults]
    IN  IF out.raised
        THEN [outcome |-> out, confirmed |-> log]
        ELSE [outcome |-> [raised |-> FALSE, val |-> Result(out.val, src, sc)],
              confirmed |-> SaveToMemory(log, out.val, src, sc, t)]

(***************************************************************************)
(* ai_agent.py: TaskAgent.get_response and NLPAgent.get_response           *)
(***************************************************************************)
\* any(w in text for w in words)
AnyIn(words, text) == \E w \in words : Contains(text, w)

\* the keyword lists of TaskAgent.get_response, in source order
RuleKeywords(g) ==
    CASE g = 1 -> {"done", "completed", "finished", "complete"}
      [] g = 2 -> {"help", "how", "guide", "steps", "what"}
      [] g = 3 -> {"send", "email", "submit"}
      [] g = 4 -> {"schedule", "book", "when", "time", "date"}
      [] g = 5 -> {"reassign", "assign to", "change owner", "assign"}

NumRuleGroups == 5

\* the dictionaries returned by TaskAgent.get_response (the leading check-mark
\* emoji of the first response text is left out)
RuleReply(g, td) ==
    CASE g = 1 -> [response |-> "Marking '" \o td \o "' complete.",
                   action |-> "complete", confidence |-> "high"]
      [] g = 2 -> [response |-> "I can guide you through: " \o td
                                \o ". Tell me which step you need help with.",
                   action |-> "guide", confidence |-> "medium"]
      [] g = 3 -> [response |-> "I can send or prepare this item for you: " \o td
                                \o ". Confirm recipients or provide message body.",
                   action |-> "send", confidence |-> "high"]
      [] g = 4 -> [response |-> "I can schedule '" \o td
                                \o "'. Please provide a preferred date/time.",
                   action |-> "schedule", confidence |-> "medium"]
      [] g = 5 -> [response |-> "Who should I assign '" \o td \o "' to?",
                   action |-> "reassign", confidence |-> "medium"]
      [] OTHER -> [response |-> "Got it. For '" \o td
                                \o "' I can guide, send, schedule, reassign, or mark complete."
                                \o " What would you like me to do?",
                   action |-> "acknowledge", confidence |-> "low"]

\* the keyword tests in the order of NLPAgent._extract_intent
TaskAgent_get_response_ScheduleFirst(td, msg) ==
    LET text == Lower(msg)
    IN  IF AnyIn(RuleKeywords(1), text) THEN RuleReply(1, td)
        ELSE IF AnyIn(RuleKeywords(2), text) THEN RuleReply(2, td)
        ELSE IF AnyIn(RuleKeywords(4), text) THEN RuleReply(4, td)
        ELSE IF AnyIn(RuleKeywords(3), text) THEN RuleReply(3, td)
        ELSE IF AnyIn(RuleKeywords(5), text) THEN RuleReply(5, td)
        ELSE RuleReply(0, td)

\* TaskAgent.get_response
TaskAgent_get_response(td, msg) ==
    LET text == Lower(msg)
    IN  IF AnyIn(RuleKeywords(1), text) THEN RuleReply(1, td)
        ELSE IF AnyIn(RuleKeywords(2), text) THEN RuleReply(2, td)
        ELSE IF AnyIn(RuleKeywords(3), text) THEN RuleReply(3, td)
        ELSE IF AnyIn(RuleKeywords(4), text) THEN RuleReply(4, td)
        ELSE IF AnyIn(RuleKeywords(5), text) THEN RuleReply(5, td)
        ELSE RuleReply(0, td)

\* the keyword lists of NLPAgent._extract_intent, in source order
NLPKeywords(g) ==
    CASE g = 1 -> {"done", "completed", "finished", "complete"}
      [] g = 2 -> {"help", "how", "guide", "steps", "what"}
      [] g = 3 -> {"schedule", "book", "meeting", "call", "time", "date"}
      [] g = 4 -> {"send", "email", "submit"}
      [] g = 5 -> {"approve", "approve this", "sign off", "authorize"}
      [] g = 6 -> {"reassign", "assign to", "assign"}

NumNLPGroups == 6

\* line 221
RootVocabulary == {"send", "schedule", "approve", "review", "process", "complete", "reassign"}

\* lines 216-223: the first ROOT token whose lemma is in the vocabulary
RootIntent(available, rts) ==
    IF available /\ \E k \in 1..Len(rts) : rts[k] \in RootVocabulary
    THEN rts[CHOOSE k \in 1..Len(rts) :
                 rts[k] \in RootVocabulary /\ \A j \in 1..(k - 1) : rts[j] \notin RootVocabulary]
    ELSE "acknowledge"

\* the root verb consulted before the keyword lists
NLPAgent_extract_intent_RootFirst(msg, available, rts) ==
    LET text == Lower(msg)
    IN  IF RootIntent(available, rts) # "acknowledge" THEN RootIntent(available, rts)
        ELSE IF AnyIn(NLPKeywords(1), text) THEN "complete"
        ELSE IF AnyIn(NLPKeywords(2), text) THEN "guide"
        ELSE IF AnyIn(NLPKeywords(3), text) THEN "schedule"
        ELSE IF AnyIn(NLPKeywords(4), text) THEN "send"
        ELSE IF AnyIn(NLPKeywords(5), text) THEN "approve"
        ELSE IF AnyIn(NLPKeywords(6), text) THEN "reassign"
        ELSE "acknowledge"

\* NLPAgent._extract_intent
NLPAgent_extract_intent(msg, available, rts) ==
    LET text == Lower(msg)
    IN  IF AnyIn(NLPKeywords(1), text) THEN "complete"
        ELSE IF AnyIn(NLPKeywords(2), text) THEN "guide"
        ELSE IF AnyIn(NLPKeywords(3), text) THEN "schedule"
        ELSE IF AnyIn(NLPKeywords(4), text) THEN "send"
        ELSE IF AnyIn(NLPKeywords(5), text) THEN "approve"
        ELSE IF AnyIn(NLPKeywords(6), text) THEN "reassign"
        ELSE RootIntent(available, rts)

\* line 230
NLPCompleteReply(td) ==
    [response |-> "Got it - I'll mark '" \o td \o "' complete.",
     action |-> "complete", confidence |-> "high"]

\* the intent returned as the action
NLPAgent_get_response_IntentAsAction(td, msg, available, rts) ==
    IF ~available THEN TaskAgent_get_response(td, msg)
    ELSE LET intent == NLPAgent_extract_intent(msg, available, rts)
         IN  IF intent = "complete" THEN NLPCompleteReply(td)
             ELSE IF intent \in {"send", "schedule", "approve", "review", "process", "reassign"}
             THEN [response |-> TaskAgent_get_response(td, msg).response,
                   action |-> intent, confidence |-> "medium"]
             ELSE TaskAgent_get_response(td, msg)

\* NLPAgent.get_response
NLPAgent_get_response(td, msg, available, rts) ==
    IF ~available THEN TaskAgent_get_response(td, msg)
    ELSE LET intent == NLPAgent_extract_intent(msg, available, rts)
         IN  IF intent = "complete" THEN NLPCompleteReply(td)
             ELSE IF intent \in {"send", "schedule", "approve", "review", "process", "reassign"}
             THEN TaskAgent_get_response(td, msg)
             ELSE TaskAgent_get_response(td, msg)

\* agent.get_response, dispatched on the class of the agent
get_response(cls, td, msg, available, rts) ==
    IF cls = "NLPAgent"
    THEN NLPAgent_get_response(td, msg, available, rts)
    ELSE TaskAgent_get_response(td, msg)

NoResp == [response |-> "", action |-> None, confidence |-> None]

\* no get_response call is under way
IntentIdle ==
    /\ agent_class = "TaskAgent"
    /\ nlp = FALSE
    /\ roots = <<>>
    /\ task_description = ""
    /\ user_message = ""
    /\ resp = NoResp
    /\ ipc = "done"

\* one call of agent.get_response on the arguments held in the state
GetResponse ==
    /\ ipc = "call"
    /\ resp' = get_response(agent_class, task_description, user_message, nlp, roots)
    /\ ipc' = "done"
    /\ UNCHANGED <<agent_class, nlp, roots, task_description, user_message>>
    /\ UNCHANGED <<extractVars, storeVars, dashVars>>

(***************************************************************************)
(* ai_agent.py: the task store data/tasks.json                             *)
(*                                                                         *)
(* A task is a record; a key that is absent from the JSON object is None   *)
(* (reminder_hours: the empty sequence).  json.dump followed by json.load  *)
(* returns these values unchanged (strings, numbers, booleans, null and    *)
(* lists only), so the file holds the collection itself.  The fields that  *)
(* no action touches (deadline, suggestion, source, confidence,            *)
(* source_email) are left out.                                             *)
(***************************************************************************)
\* the task_obj of main.py lines 27-43
NewTask(task, owner, priority) ==
    [task |-> task, owner |-> owner, priority |-> priority, status |-> "pending",
     reminder |-> None, reminder_hours |-> <<>>, reminder_triggered |-> FALSE,
     completed_date |-> None, agent_notes |-> <<>>, comments |-> <<>>,
     chat_completion |-> None]

\* datetime.now().strftime("%Y-%m-%d %H:%M:%S"); the clock counts days
Timestamp(t) == strftime(t) \o " 00:00:00"

\* tasks.json: absent, present but open() fails, not JSON, or a JSON array
FileKinds == {"missing", "unreadable", "garbage", "json"}

JsonFile(tasks) == [kind |-> "json", data |-> tasks]
OtherFile(kind) == [kind |-> kind, data |-> <<>>]

\* load_tasks(): open() is outside the try block, json.load inside it
load_tasks(f) ==
    CASE f.kind = "missing"    -> [raised |-> FALSE, val |-> <<>>]
      [] f.kind = "unreadable" -> [raised |-> TRUE, val |-> <<>>]
      [] f.kind = "garbage"    -> [raised |-> FALSE, val |-> <<>>]
      [] f.kind = "json"       -> [raised |-> FALSE, val |-> f.data]

\* a task reference: an int or a str
IntRef(n) == [kind |-> "int", n |-> n, s |-> ""]
StrRef(s) == [kind |-> "str", n |-> 0, s |-> s]

\* task_ref=None
NoRef == [kind |-> "none", n |-> 0, s |-> ""]

Digits == "0123456789"

IsDigit(c) == \E k \in 1..10 : SubSeq(Digits, k, k) = c

DigitVal(c) == (CHOOSE k \in 1..10 : SubSeq(Digits, k, k) = c) - 1

\* str.strip() of blanks
RECURSIVE Strip(_)
Strip(s) ==
    IF Len(s) > 0 /\ SubSeq(s, 1, 1) = " " THEN Strip(SubSeq(s, 2, Len(s)))
    ELSE IF Len(s) > 0 /\ SubSeq(s, Len(s), Len(s)) = " " THEN Strip(SubSeq(s, 1, Len(s) - 1))
    ELSE s

RECURSIVE DecimalValue(_)
DecimalValue(s) ==
    IF Len(s) = 0 THEN 0
    ELSE 10 * DecimalValue(SubSeq(s, 1, Len(s) - 1)) + DigitVal(SubSeq(s, Len(s), Len(s)))

\* int(s) for a str: blanks stripped, an optional sign, decimal digits;
\* ok is FALSE where Python raises ValueError
ParseInt(s) ==
    LET body   == Strip(s)
        signed == Len(body) > 0 /\ SubSeq(body, 1, 1) \in {"+", "-"}
        digits == IF signed THEN SubSeq(body, 2, Len(body)) ELSE body
        valid  == Len(digits) > 0 /\ \A k \in 1..Len(digits) : IsDigit(SubSeq(digits, k, k))
    IN  IF valid
        THEN [ok |-> TRUE,
              n |-> IF signed /\ SubSeq(body, 1, 1) = "-"
                    THEN 0 - DecimalValue(digits) ELSE DecimalValue(digits)]
        ELSE [ok |-> FALSE, n |-> 0]

\* Optional[int]: None
NoIndex == -1

\* the loop of lines 67-71: first task whose description contains q
FirstContaining(tasks, q) ==
    IF \E i \in 1..Len(tasks) : Contains(Lower(tasks[i].task), q)
    THEN (CHOOSE i \in 1..Len(tasks) :
              /\ Contains(Lower(tasks[i].task), q)
              /\ \A j \in 1..(i - 1) : ~Contains(Lower(tasks[j].task), q)) - 1
    ELSE NoIndex

\* an out-of-range numeric string resolving to nothing
find_task_index_StrictNumeric(ref, tasks) ==
    IF ref.kind = "int"
    THEN IF 0 <= ref.n /\ ref.n < Len(tasks) THEN ref.n ELSE NoIndex
    ELSE LET parsed == ParseInt(ref.s)
         IN  IF parsed.ok
             THEN IF 0 <= parsed.n /\ parsed.n < Len(tasks) THEN parsed.n ELSE NoIndex
             ELSE FirstContaining(tasks, Lower(ref.s))

\* _find_task_index(ref) on the collection that load_tasks() returned
\* (0-based index, NoIndex for None)
find_task_index(ref, tasks) ==
    IF ref.kind = "int"
    THEN IF 0 <= ref.n /\ ref.n < Len(tasks) THEN ref.n ELSE NoIndex
    ELSE LET parsed == ParseInt(ref.s)
         IN  IF parsed.ok /\ 0 <= parsed.n /\ parsed.n < Len(tasks)
             THEN parsed.n
             ELSE FirstContaining(tasks, Lower(ref.s))

\* tasks[idx] = entry
SetEntry(tasks, idx, entry) ==
    [i \in 1..Len(tasks) |-> IF i = idx + 1 THEN entry ELSE tasks[i]]

\* an executor call: method, reference and keyword arguments
\*   mark_complete: text = note (None if not given)
\*   set_reminder:  hours
\*   reassign:      text = new_owner
\*   add_comment:   text = comment, author
Call(method, ref, text, hours, author) ==
    [method |-> method, ref |-> ref, text |-> text, hours |-> hours, author |-> author]

NoCall == Call("none", IntRef(0), None, 0, None)

\* every entry of the collection rewritten by the change
Mutate_AllEntries(c, tasks, idx, t) ==
    [i \in 1..Len(tasks) |-> [tasks[i] EXCEPT !.owner = c.text, !.status = "completed"]]

\* the in-memory mutation of each executor method (lines 153-156, 165-167,
\* 176-177, 186-187) applied to tasks[idx] at clock t
Mutate(c, tasks, idx, t) ==
    LET e == tasks[idx + 1]
    IN  CASE c.method = "mark_complete" ->
               LET e1 == [e EXCEPT !.status = "completed", !.completed_date = Timestamp(t)]
                   e2 == IF c.text # None /\ c.text # ""
                         THEN [e1 EXCEPT !.agent_notes =
                                   Append(@, [when |-> Timestamp(t), note |-> c.text])]
                         ELSE e1
               IN  SetEntry(tasks, idx, e2)
          [] c.method = "set_reminder" ->
               SetEntry(tasks, idx,
                   [e EXCEPT !.reminder_hours = <<c.hours>>,
                             !.reminder = ToString(c.hours) \o " hour(s) before",
                             !.reminder_triggered = FALSE])
          [] c.method = "reassign" ->
               SetEntry(tasks, idx, [e EXCEPT !.owner = c.text])
          [] c.method = "add_comment" ->
               SetEntry(tasks, idx,
                   [e EXCEPT !.comments =
                        Append(@, [when |-> Timestamp(t), author |-> c.author,
                                   comment |-> c.text])])

\* the success dictionaries returned by the executor methods
Success(c, tasks, idx) ==
    [success |-> TRUE,
     message |-> CASE c.method = "mark_complete" -> "Task marked complete"
                   [] c.method = "set_reminder"  -> "Reminder set"
                   [] c.method = "reassign"      ->
                        "Reassigned from " \o tasks[idx + 1].owner \o " to " \o c.text
                   [] c.method = "add_comment"   -> "Comment added",
     index |-> idx]

Failure(message) == [success |-> FALSE, message |-> message, index |-> NoIndex]

NoResult == [success |-> FALSE, message |-> None, index |-> NoIndex]

(***************************************************************************)
(* ai_agent.py: the executor actions, one step per access to tasks.json    *)
(***************************************************************************)
Executors == {"e1", "e2"}
Writers == Executors \cup {"dash", "main"}

\* no executor action under way
IdleExec ==
    [pc |-> "idle", api |-> "none", token |-> None, msg |-> None, call |-> NoCall,
     idx |-> NoIndex, tasks |-> <<>>, result |-> NoResult, before |-> OtherFile("missing"),
     resolved |-> None, touched |-> None, wrote |-> FALSE, n |-> 0]

\* a button or select box of the dashboard that has been acted on
Click(handler, index, option) == [handler |-> handler, index |-> index, option |-> option]

NoClick == Click("none", NoIndex, None)

NoHist ==
    [written |-> {}, last |-> None, seen |-> [w \in Writers |-> {}], click |-> NoClick]

\* writer w has read tasks.json
NoteRead(h, w) == [h EXCEPT !.seen[w] = h.written]

\* writer w has written tasks.json
NoteWrite(h, w) == [h EXCEPT !.written = @ \cup {w}, !.last = w]

\* the caller enters mark_complete / set_reminder / reassign / add_comment
Enter(p, api, token, msg, c) ==
    exec' = [exec EXCEPT ![p] =
                [IdleExec EXCEPT !.pc = "find", !.api = api, !.token = token, !.msg = msg,
                                 !.call = c,
                                 !.before = file, !.n = exec[p].n + 1]]

\* the caller gets a result without any executor method being entered
ReturnAtOnce(p, api, token, msg, ref, result) ==
    exec' = [exec EXCEPT ![p] =
                [IdleExec EXCEPT !.pc = "returned", !.api = api, !.token = token, !.msg = msg,
                                 !.call = [NoCall EXCEPT !.ref = ref], !.result = result, !.before = file, !.n = exec[p].n + 1]]

\* the method going on to entry 0 when the reference resolves to nothing
Find_Unchecked(p) ==
    /\ exec[p].pc = "find"
    /\ LET loaded == load_tasks(file)
           found == find_task_index(exec[p].call.ref, loaded.val)
           idx == IF found = NoIndex /\ Len(loaded.val) > 0 THEN 0 ELSE found
       IN  exec' = [exec EXCEPT ![p] =
               IF loaded.raised THEN [@ EXCEPT !.pc = "raised"]
               ELSE IF idx = NoIndex
               THEN [@ EXCEPT !.pc = "returned", !.result = Failure("Task not found")]
               ELSE [@ EXCEPT !.pc = "load", !.idx = idx,
                              !.resolved = loaded.val[idx + 1].task]]
    /\ UNCHANGED <<file, hist, mpc>>
    /\ UNCHANGED <<extractVars, intentVars, dashVars>>

\* idx = _find_task_index(task_ref): the first read of tasks.json
Find(p) ==
    /\ exec[p].pc = "find"
    /\ LET loaded == load_tasks(file)
           idx == find_task_index(exec[p].call.ref, loaded.val)
       IN  exec' = [exec EXCEPT ![p] =
               IF loaded.raised THEN [@ EXCEPT !.pc = "raised"]
               ELSE IF idx = NoIndex
               THEN [@ EXCEPT !.pc = "returned", !.result = Failure("Task not found")]
               ELSE [@ EXCEPT !.pc = "load", !.idx = idx,
                              !.resolved = loaded.val[idx + 1].task]]
    /\ UNCHANGED <<file, hist, mpc>>
    /\ UNCHANGED <<extractVars, intentVars, dashVars>>

\* tasks = load_tasks() and the mutation of tasks[idx]: the second read;
\* tasks[idx] raises IndexError when the collection read now is too short
Load(p) ==
    /\ exec[p].pc = "load"
    /\ LET loaded == load_tasks(file)
           idx == exec[p].idx
       IN  exec' = [exec EXCEPT ![p] =
               IF loaded.raised \/ idx >= Len(loaded.val)
               THEN [@ EXCEPT !.pc = "raised"]
               ELSE [@ EXCEPT !.pc = "save",
                              !.touched = loaded.val[idx + 1].task,
                              !.result = Success(exec[p].call, loaded.val, idx),
                              !.tasks = Mutate(exec[p].call, loaded.val, idx, now)]]
    /\ hist' = NoteRead(hist, p)
    /\ UNCHANGED <<file, mpc>>
    /\ UNCHANGED <<extractVars, intentVars, dashVars>>

\* a write that puts only the changed entry into the stored collection
Save_MergeEntry(p) ==
    /\ exec[p].pc = "save"
    /\ file' = JsonFile(SetEntry(load_tasks(file).val, exec[p].idx,
                                 exec[p].tasks[exec[p].idx + 1]))
    /\ exec' = [exec EXCEPT ![p] = [@ EXCEPT !.pc = "returned", !.wrote = TRUE]]
    /\ hist' = NoteWrite(hist, p)
    /\ UNCHANGED mpc
    /\ UNCHANGED <<extractVars, intentVars, dashVars>>

\* save_tasks(tasks) and the return of the success dictionary
Save(p) ==
    /\ exec[p].pc = "save"
    /\ file' = JsonFile(exec[p].tasks)
    /\ exec' = [exec EXCEPT ![p] = [@ EXCEPT !.pc = "returned", !.wrote = TRUE]]
    /\ hist' = NoteWrite(hist, p)
    /\ UNCHANGED mpc
    /\ UNCHANGED <<extractVars, intentVars, dashVars>>

\* process_task_action falling through to mark_complete for an unknown type
process_task_action_DefaultComplete(p, ref, action_type, text, hours, author) ==
    /\ exec[p].pc \in {"idle", "returned", "raised"}
    /\ exec[p].n < MaxCalls
    /\ IF action_type = "set_reminder"
       THEN Enter(p, "process_task_action", action_type, None,
                  Call("set_reminder", ref, None, hours, None))
       ELSE IF action_type = "reassign"
       THEN Enter(p, "process_task_action", action_type, None,
                  Call("reassign", ref, text, 0, None))
       ELSE IF action_type = "comment"
       THEN Enter(p, "process_task_action", action_type, None,
                  Call("add_comment", ref, text, 0, author))
       ELSE Enter(p, "process_task_action", action_type, None,
                  Call("mark_complete", ref, text, 0, None))
    /\ UNCHANGED <<file, hist, mpc>>
    /\ UNCHANGED <<extractVars, intentVars, dashVars>>

\* process_task_action(task_ref, action_type, **kwargs) up to the executor
\* method it calls
process_task_action(p, ref, action_type, text, hours, author) ==
    /\ exec[p].pc \in {"idle", "returned", "raised"}
    /\ exec[p].n < MaxCalls
    /\ IF action_type = "complete"
       THEN Enter(p, "process_task_action", action_type, None,
                  Call("mark_complete", ref, text, 0, None))
       ELSE IF action_type = "set_reminder"
       THEN Enter(p, "process_task_action", action_type, None,
                  Call("set_reminder", ref, None, hours, None))
       ELSE IF action_type = "reassign"
       THEN Enter(p, "process_task_action", action_type, None,
                  Call("reassign", ref, text, 0, None))
       ELSE IF action_type = "comment"
       THEN Enter(p, "process_task_action", action_type, None,
                  Call("add_comment", ref, text, 0, author))
       ELSE ReturnAtOnce(p, "process_task_action", action_type, None, ref, Failure("Unknown action"))
    /\ UNCHANGED <<file, hist, mpc>>
    /\ UNCHANGED <<extractVars, intentVars, dashVars>>

\* user_message.split()[-1], "" for a message without words
RECURSIVE LastToken(_)
LastToken(msg) ==
    LET m == Strip(msg)
    IN  IF \E k \in 1..Len(m) : SubSeq(m, k, k) = " "
        THEN LastToken(SubSeq(m, 1 + (CHOOSE k \in 1..Len(m) : SubSeq(m, k, k) = " "), Len(m)))
        ELSE m

\* "guide" recorded as a comment on the task
ExecutionRule_GuideComments(action, ref, msg) ==
    CASE action = "complete" -> Call("mark_complete", ref, msg, 0, None)
      [] action = "schedule" -> Call("set_reminder", ref, None, 1, None)
      [] action = "send"     -> Call("add_comment", ref, "Sent by agent: " \o msg, 0, "agent")
      [] action = "reassign" -> Call("reassign", ref, LastToken(msg), 0, None)
      [] action = "guide"    -> Call("add_comment", ref, "Guided by agent: " \o msg, 0, "agent")
      [] OTHER               -> NoCall

\* the executor call of get_ai_response for each action token (lines 248-261)
ExecutionRule(action, ref, msg) ==
    CASE action = "complete" -> Call("mark_complete", ref, msg, 0, None)
      [] action = "schedule" -> Call("set_reminder", ref, None, 1, None)
      [] action = "send"     -> Call("add_comment", ref, "Sent by agent: " \o msg, 0, "agent")
      [] action = "reassign" -> Call("reassign", ref, LastToken(msg), 0, None)
      [] OTHER               -> NoCall

\* get_ai_response(task_description, user_message, task_owner, auto_execute,
\* task_ref) up to the executor method it calls
get_ai_response(p, td, msg, available, rts, auto_execute, task_ref) ==
    /\ exec[p].pc \in {"idle", "returned", "raised"}
    /\ exec[p].n < MaxChats
    /\ LET r == get_response(IF available THEN "NLPAgent" ELSE "TaskAgent",
                             td, msg, available, rts)
           c == ExecutionRule(r.action, task_ref, msg)
       IN  IF auto_execute /\ task_ref # NoRef /\ r.action # None
           THEN IF c.method # "none"
                THEN Enter(p, "get_ai_response", r.action, msg, c)
                ELSE ReturnAtOnce(p, "get_ai_response", r.action, msg, task_ref,
                                  Failure("No execution rule for action"))
           ELSE ReturnAtOnce(p, "get_ai_response", r.action, msg, task_ref, NoResult)
    /\ UNCHANGED <<file, hist, mpc>>
    /\ UNCHANGED <<extractVars, intentVars, dashVars>>

(***************************************************************************)
(* dashboard.py: one run of the script                                     *)
(***************************************************************************)
\* a task without a "priority" key
Absent == "<absent>"

\* priority_order.get(p, 3)
priority_order(p) ==
    CASE p = "high"   -> 0
      [] p = "medium" -> 1
      [] p = "low"    -> 2
      [] OTHER        -> 3

\* key=lambda x: priority_order.get(x[1].get("priority", "low"), 3)
SortKey(x) == priority_order(IF x.task.priority = Absent THEN "low" ELSE x.task.priority)

\* x placed after the items whose key is not greater than its own
InsertByKey(sorted, x) ==
    LET behind == { k \in 1..Len(sorted) : SortKey(sorted[k]) > SortKey(x) }
        at == IF behind = {} THEN Len(sorted) + 1
              ELSE CHOOSE k \in behind : \A j \in behind : k <= j
    IN  SubSeq(sorted, 1, at - 1) \o <<x>> \o SubSeq(sorted, at, Len(sorted))

\* list.sort(key=...): stable
RECURSIVE SortedByKey(_)
SortedByKey(items) ==
    IF items = <<>> THEN <<>>
    ELSE InsertByKey(SortedByKey(SubSeq(items, 1, Len(items) - 1)), items[Len(items)])

\* [(i, t) for i, t in enumerate(tasks) if t.get("status") == status]
RECURSIVE Enumerated(_, _, _)
Enumerated(tasks, status, i) ==
    IF i >= Len(tasks) THEN <<>>
    ELSE IF tasks[i + 1].status = status
    THEN <<[index |-> i, task |-> tasks[i + 1]]>> \o Enumerated(tasks, status, i + 1)
    ELSE Enumerated(tasks, status, i + 1)

\* the pending list without the sort
PendingList_Unsorted(tasks) == Enumerated(tasks, "pending", 0)

\* pending_tasks of lines 231-236
PendingList(tasks) == SortedByKey(Enumerated(tasks, "pending", 0))

\* completed_tasks of line 303
CompletedList(tasks) ==
    LET items == Enumerated(tasks, "completed", 0)
    IN  [k \in 1..Len(items) |-> items[k].task]

\* lines 20-26: os.path.exists, then open and json.load without a try
dashboard_load(f) ==
    CASE f.kind = "missing"    -> [raised |-> FALSE, val |-> <<>>]
      [] f.kind = "unreadable" -> [raised |-> TRUE, val |-> <<>>]
      [] f.kind = "garbage"    -> [raised |-> TRUE, val |-> <<>>]
      [] f.kind = "json"       -> [raised |-> FALSE, val |-> f.data]

\* the script runs from the top: it loads tasks.json and renders the lists
DashLoad ==
    /\ LET loaded == dashboard_load(file)
       IN  IF loaded.raised
           THEN /\ dpc' = "raised"
                /\ all_tasks' = <<>>
                /\ pending_tasks' = <<>>
                /\ completed_tasks' = <<>>
           ELSE /\ dpc' = "rendered"
                /\ all_tasks' = loaded.val
                /\ pending_tasks' = PendingList(loaded.val)
                /\ completed_tasks' = CompletedList(loaded.val)
    /\ hist' = NoteRead(hist, "dash")
    /\ UNCHANGED <<file, exec, mpc>>
    /\ UNCHANGED <<extractVars, intentVars>>

\* line 88: task_idx < len(all_tasks), for an index set by a Chat button
InRangeOf(task_idx, tasks) == 0 <= task_idx /\ task_idx < Len(tasks)

\* reminder_map.get(reminder_option, 0)
reminder_map(option) ==
    CASE option = "1 hour before"  -> 1
      [] option = "1 day before"   -> 24
      [] option = "2 days before"  -> 48
      [] option = "1 week before"  -> 168
      [] OTHER                     -> 0

\* the change a dashboard handler makes to all_tasks[click.index] at clock t
DashChange(click, tasks, t) ==
    LET e == tasks[click.index + 1]
    IN  CASE click.handler = "mark_task_complete" ->
               SetEntry(tasks, click.index,
                   [e EXCEPT !.status = "completed", !.completed_date = Timestamp(t)])
          [] click.handler = "set_reminder" ->
               SetEntry(tasks, click.index,
                   [e EXCEPT !.reminder = click.option,
                             !.reminder_hours = <<reminder_map(click.option)>>])

\* "Mark Done" of the task listed with original_idx: mark_task_complete
\* changes all_tasks in memory and save_tasks() writes it over tasks.json
DashMarkDone(original_idx) ==
    /\ dpc = "rendered"
    /\ \E k \in 1..Len(pending_tasks) : pending_tasks[k].index = original_idx
    /\ LET click == Click("mark_task_complete", original_idx, None)
       IN  /\ all_tasks' = DashChange(click, all_tasks, now)
           /\ hist' = [NoteWrite(hist, "dash") EXCEPT !.click = click]
    /\ file' = JsonFile(all_tasks')
    /\ dpc' = "saved"
    /\ UNCHANGED <<pending_tasks, completed_tasks, exec, mpc>>
    /\ UNCHANGED <<extractVars, intentVars>>

\* the reminder select box of the task listed with original_idx:
\* set_reminder changes all_tasks in memory and save_tasks() writes it
DashSetReminder(original_idx, reminder_option) ==
    /\ dpc = "rendered"
    /\ \E k \in 1..Len(pending_tasks) : pending_tasks[k].index = original_idx
    /\ LET click == Click("set_reminder", original_idx, reminder_option)
       IN  /\ all_tasks' = DashChange(click, all_tasks, now)
           /\ hist' = [NoteWrite(hist, "dash") EXCEPT !.click = click]
    /\ file' = JsonFile(all_tasks')
    /\ dpc' = "saved"
    /\ UNCHANGED <<pending_tasks, completed_tasks, exec, mpc>>
    /\ UNCHANGED <<extractVars, intentVars>>

\* a chat message that reopens a completed task
ChatChange_Toggle(task_idx, user_input, tasks, t) ==
    LET e == tasks[task_idx + 1]
    IN  SetEntry(tasks, task_idx,
            [e EXCEPT !.status = IF @ = "completed" THEN "pending" ELSE "completed",
                      !.chat_completion = user_input,
                      !.completed_date = Timestamp(t)])

\* lines 166-168: the completion the chat modal applies to all_tasks[task_idx]
ChatChange(task_idx, user_input, tasks, t) ==
    LET e == tasks[task_idx + 1]
    IN  SetEntry(tasks, task_idx,
            [e EXCEPT !.status = "completed",
                      !.chat_completion = user_input,
                      !.completed_date = Timestamp(t)])

\* "Send" in the chat modal of task_idx with a non-empty message: the reply
\* of get_ai_response (no auto_execute); on action "complete" the task is
\* completed in all_tasks and save_tasks() writes it, then the script reruns
DashChatSend(task_idx, user_input, available, rts) ==
    /\ dpc = "rendered"
    /\ InRangeOf(task_idx, all_tasks)
    /\ user_input # ""
    /\ LET r == get_response(IF available THEN "NLPAgent" ELSE "TaskAgent",
                             all_tasks[task_idx + 1].task, user_input, available, rts)
       IN  IF r.action = "complete"
           THEN /\ all_tasks' = ChatChange(task_idx, user_input, all_tasks, now)
                /\ file' = JsonFile(all_tasks')
                /\ hist' = [NoteWrite(hist, "dash") EXCEPT
                               !.click = Click("chat_completion", task_idx, user_input)]
                /\ dpc' = "saved"
           ELSE /\ dpc' = "idle"
                /\ UNCHANGED <<all_tasks, file, hist>>
    /\ UNCHANGED <<pending_tasks, completed_tasks, exec, mpc>>
    /\ UNCHANGED <<extractVars, intentVars>>

\* "Mark as Complete" in the chat modal of task_idx (lines 185-188)
DashChatComplete(task_idx) ==
    /\ dpc = "rendered"
    /\ InRangeOf(task_idx, all_tasks)
    /\ LET click == Click("mark_task_complete", task_idx, None)
       IN  /\ all_tasks' = DashChange(click, all_tasks, now)
           /\ hist' = [NoteWrite(hist, "dash") EXCEPT !.click = click]
    /\ file' = JsonFile(all_tasks')
    /\ dpc' = "saved"
    /\ UNCHANGED <<pending_tasks, completed_tasks, exec, mpc>>
    /\ UNCHANGED <<extractVars, intentVars>>

(***************************************************************************)
(* main.py: the extraction pass writes a fresh collection                  *)
(***************************************************************************)
Rewrite(tasks) ==
    /\ mpc = "idle"
    /\ file' = JsonFile(tasks)
    /\ mpc' = "done"
    /\ hist' = NoteWrite(hist, "main")
    /\ UNCHANGED <<exec>>
    /\ UNCHANGED <<extractVars, intentVars, dashVars>>

\* the store and the dashboard before any process has started
StoreIdle ==
    /\ file = OtherFile("missing")
    /\ exec = [p \in Executors |-> IdleExec]
    /\ hist = NoHist
    /\ mpc = "idle"
    /\ all_tasks = <<>>
    /\ pending_tasks = <<>>
    /\ completed_tasks = <<>>
    /\ dpc = "idle"

(***************************************************************************)
(* Inputs                                                                  *)
(***************************************************************************)
LongSubject == "URGENT: Quarterly numbers for the steering committee are overdue"

Phrases ==
    { "", "Hello team", "Lunch on Friday",
      "Please send the revised document by Friday", "Document Update",
      "revised document and invoice", "Follow up with the client",
      "follow up", "client", "ASAP", "immediately", "Password", "reset",
      "Phishing", "revisions", "version", "Please review", "review",
      "resolved", "please check", "check", "deployment", "quote", "Confirm",
      "approval", "go-live", "meeting", "propose", "Schedule", "Invoice attached",
      "report", "outage", "summary", "training", "policy", "already", "contract",
      "data", "export", "approve", "campaign", "incident", "scope change",
      "study", "express", "sow", "renewal",
      "FYI, deployment resolved", "fyi", "No action", "digest",
      "please", "Can you", "FYI please", "would you", "prepare", "logs" }

Bodies == Phrases \cup {None}
Subjects == Phrases \cup {None, "Urgent", LongSubject}
Sources == {"email", "calendar", "slack", "sms"}

\* inputs of the calendar and slack branches and of unknown sources
OtherBodies ==
    { None, "", "Hello team", "Prepare slides", "prepare", "Check the logs",
      "please check the logs", "check", "logs", "Deployment tonight",
      "check deployment logs", "Invoice attached" }
OtherSubjects == { None, "", "prepare", "Standup", "#ops deployment", "check logs" }

Clocks == {308, 357}

(***************************************************************************)
(* Actions                                                                 *)
(***************************************************************************)
\* one call of extract_task on the arguments held in the state
ExtractTask ==
    /\ pc = "call"
    /\ LET r == extract_task(content, source, subject_or_channel, now, confirmed_tasks)
       IN  /\ ret' = r.outcome
           /\ confirmed_tasks' = r.confirmed
    /\ pc' = "done"
    /\ UNCHANGED <<content, source, subject_or_channel, now>>
    /\ UNCHANGED <<intentVars, storeVars, dashVars>>

\* a caller (main.py, dashboard.py) passes the next message
Invoke(c, src, sc) ==
    /\ pc \in {"idle", "done"}
    /\ Len(confirmed_tasks) < MaxLog
    /\ content' = c
    /\ source' = src
    /\ subject_or_channel' = sc
    /\ pc' = "call"
    /\ UNCHANGED <<now, confirmed_tasks, ret>>
    /\ UNCHANGED <<intentVars, storeVars, dashVars>>

StartDay == 308

\* the clock advances between calls
Tick ==
    /\ pc \in {"idle", "done"}
    /\ now < StartDay + MaxTicks
    /\ now' = now + 1
    /\ UNCHANGED <<content, source, subject_or_channel, confirmed_tasks, ret, pc>>
    /\ UNCHANGED <<intentVars, storeVars, dashVars>>

(***************************************************************************)
(* SpecExtract: extract_task as a function of its inputs                   *)
(***************************************************************************)
InitExtract ==
    /\ \/ /\ source = "email"
          /\ content \in Bodies
          /\ subject_or_channel \in Subjects
       \/ /\ source \in Sources \ {"email"}
          /\ content \in OtherBodies
          /\ subject_or_channel \in OtherSubjects
    /\ now \in Clocks
    /\ confirmed_tasks = <<>>
    /\ ret = NoRet
    /\ pc = "call"
    /\ IntentIdle
    /\ StoreIdle

NextExtract == ExtractTask

SpecExtract == InitExtract /\ [][NextExtract]_vars

(***************************************************************************)
(* Spec: a process that calls extract_task repeatedly                      *)
(***************************************************************************)
CallBodies == { "revised document and invoice", "FYI please", "Hello team",
                "please check the logs", "prepare" }
CallSubjects == { "", "Urgent" }
CallSources == { "email", "calendar", "slack" }

Init ==
    /\ content = ""
    /\ source = "email"
    /\ subject_or_channel = ""
    /\ now = StartDay
    /\ confirmed_tasks = <<>>
    /\ ret = NoRet
    /\ pc = "idle"
    /\ IntentIdle
    /\ StoreIdle

Next ==
    \/ \E c \in CallBodies, src \in CallSources, sc \in CallSubjects : Invoke(c, src, sc)
    \/ ExtractTask
    \/ Tick

Spec == Init /\ [][Next]_vars

(***************************************************************************)
(* SpecIntent: get_response as a function of its inputs                    *)
(***************************************************************************)
Messages ==
    { "", "ok thanks", "I'm done with this", "Completed", "finished it",
      "I am completing it", "Help", "show me", "what steps", "guide me",
      "send it", "I sent it", "Email Bob", "submit", "Schedule it",
      "I am scheduling it", "book a room", "when", "sometime", "update",
      "Reassign to Bob", "assign to Alice", "change owner", "meeting",
      "call me", "approve", "Approving it", "sign off", "reviewing", "process it",
      "Thanks. I sent it", "Need help completing it",
      "Done, please send help", "send and schedule", "schedule and send",
      "email the meeting notes", "call and submit", "how to send",
      "assign a date", "what time", "when is it done" }

TaskDescriptions == { "Send the revised document", "Review: Q3" }

\* inflected forms that spaCy lemmatizes to a verb of the vocabulary
LemmaForms(l) ==
    CASE l = "send"     -> {"send", "sent", "sending"}
      [] l = "schedule" -> {"schedule", "scheduling", "scheduled"}
      [] l = "approve"  -> {"approve", "approving", "approved"}
      [] l = "review"   -> {"review", "reviewing", "reviewed"}
      [] l = "process"  -> {"process", "processing", "processed"}
      [] l = "complete" -> {"complete", "completing", "completed"}
      [] l = "reassign" -> {"reassign", "reassigning", "reassigned"}

\* lemmas spaCy may report for a ROOT token of msg: a vocabulary verb that
\* occurs in the message, or some verb outside the vocabulary ("be")
Lemmas(msg) == {"be"} \cup {l \in RootVocabulary : AnyIn(LemmaForms(l), Lower(msg))}

\* the ROOT lemmas of self.nlp(msg): one per sentence, none for an empty message
RootSeqs(msg) ==
    IF msg = "" THEN {<<>>}
    ELSE UNION { [1..k -> Lemmas(msg)] : k \in 1..MaxRoots }

InitIntent ==
    /\ content = ""
    /\ source = "email"
    /\ subject_or_channel = ""
    /\ now = StartDay
    /\ confirmed_tasks = <<>>
    /\ ret = NoRet
    /\ pc = "done"
    /\ task_description \in TaskDescriptions
    /\ user_message \in Messages
    /\ \/ agent_class = "TaskAgent" /\ nlp \in BOOLEAN /\ roots = <<>>
       \/ agent_class = "NLPAgent" /\ nlp = FALSE /\ roots = <<>>
       \/ agent_class = "NLPAgent" /\ nlp = TRUE /\ roots \in RootSeqs(user_message)
    /\ resp = NoResp
    /\ ipc = "call"
    /\ StoreIdle

NextIntent == GetResponse

SpecIntent == InitIntent /\ [][NextIntent]_vars

(***************************************************************************)
(* SpecStore: one caller of the executor, one call after another           *)
(***************************************************************************)
StoreTasks ==
    << NewTask("Review: Q3", "You", "medium"),
       NewTask("Send the revised document", "Ravindu", "high"),
       NewTask("Review and respond: 7 items", "You", "low") >>

InitFiles ==
    { OtherFile("missing"), OtherFile("unreadable"), OtherFile("garbage"),
      JsonFile(<<>>), JsonFile(SubSeq(StoreTasks, 1, 2)), JsonFile(StoreTasks) }

Refs == { IntRef(1), IntRef(3), StrRef("review"), StrRef("7"), StrRef("zzz") }

ActionTypes == {"complete", "set_reminder", "reassign", "comment", "archive", ""}

\* keyword arguments of process_task_action for each action_type
Kwargs(action_type) ==
    CASE action_type = "complete"     -> { [text |-> None, hours |-> 0, author |-> None],
                                           [text |-> "done by phone", hours |-> 0, author |-> None] }
      [] action_type = "set_reminder" -> { [text |-> None, hours |-> 24, author |-> None] }
      [] action_type = "reassign"     -> { [text |-> "Bob", hours |-> 0, author |-> None] }
      [] action_type = "comment"      -> { [text |-> "Waiting for legal", hours |-> 0,
                                            author |-> "agent"] }
      [] OTHER                        -> { [text |-> None, hours |-> 0, author |-> None] }

\* one message per action token of the classifier
ChatMessages ==
    { "I'm done with this", "Help", "send it", "when", "assign to Alice", "ok thanks" }

ChatRefs == { NoRef, IntRef(0), StrRef("revised"), StrRef("zzz") }

\* the sentence roots spaCy may report for a one-sentence message
ChatRoots(msg) == { rts \in RootSeqs(msg) : Len(rts) = 1 }

ExtractIdle ==
    /\ content = ""
    /\ source = "email"
    /\ subject_or_channel = ""
    /\ now = StartDay
    /\ confirmed_tasks = <<>>
    /\ ret = NoRet
    /\ pc = "idle"

InitStore ==
    /\ ExtractIdle
    /\ IntentIdle
    /\ file \in InitFiles
    /\ exec = [p \in Executors |-> IdleExec]
    /\ hist = NoHist
    /\ mpc = "idle"
    /\ all_tasks = <<>>
    /\ pending_tasks = <<>>
    /\ completed_tasks = <<>>
    /\ dpc = "idle"

NextStore ==
    \/ \E ref \in Refs, ty \in ActionTypes :
         \E kw \in Kwargs(ty) : process_task_action("e1", ref, ty, kw.text, kw.hours, kw.author)
    \/ Find("e1")
    \/ Load("e1")
    \/ Save("e1")

SpecStore == InitStore /\ [][NextStore]_vars

(***************************************************************************)
(* SpecChat: one caller of get_ai_response                                 *)
(***************************************************************************)
NextChat ==
    \/ \E msg \in ChatMessages, available \in BOOLEAN, auto_execute \in BOOLEAN,
          task_ref \in ChatRefs :
         \E rts \in (IF available THEN ChatRoots(msg) ELSE {<<>>}) :
            get_ai_response("e1", "Review: Q3", msg, available, rts, auto_execute, task_ref)
    \/ Find("e1")
    \/ Load("e1")
    \/ Save("e1")

SpecChat == InitStore /\ [][NextChat]_vars

(***************************************************************************)
(* SpecResolve: _find_task_index as a function of reference and store      *)
(***************************************************************************)
ResolveRefs ==
    { IntRef(-1), IntRef(0), IntRef(1), IntRef(2), IntRef(3), IntRef(5),
      StrRef("0"), StrRef("1"), StrRef(" 2 "), StrRef("2"), StrRef("3"), StrRef("7"),
      StrRef("9"), StrRef("10"), StrRef("-1"), StrRef("+1"), StrRef("1.0"),
      StrRef("REVIEW"), StrRef("revised"), StrRef("Respond"), StrRef("q3"),
      StrRef("review and"), StrRef("zzz"), StrRef("") }

ResolveFiles ==
    { OtherFile("missing"), OtherFile("garbage"), JsonFile(<<>>),
      JsonFile(SubSeq(StoreTasks, 1, 1)), JsonFile(SubSeq(StoreTasks, 1, 2)),
      JsonFile(StoreTasks) }

InitResolve ==
    /\ ExtractIdle
    /\ IntentIdle
    /\ file \in ResolveFiles
    /\ \E ref \in ResolveRefs :
          exec = [p \in Executors |->
                     IF p = "e1"
                     THEN [IdleExec EXCEPT !.pc = "find", !.api = "_find_task_index",
                                           !.call = Call("mark_complete", ref, None, 0, None),
                                           !.before = file, !.n = 1]
                     ELSE IdleExec]
    /\ hist = NoHist
    /\ mpc = "idle"
    /\ all_tasks = <<>>
    /\ pending_tasks = <<>>
    /\ completed_tasks = <<>>
    /\ dpc = "idle"

NextResolve == Find("e1")

SpecResolve == InitResolve /\ [][NextResolve]_vars

(***************************************************************************)
(* SpecRender: the dashboard lists as a function of the stored collection  *)
(***************************************************************************)
Priorities == {"high", "medium", "low", "High", None, Absent}

\* priority and status of a stored task: the priority of a completed task
\* is not looked at by the lists
TaskKinds == (Priorities \X {"pending"}) \cup {<<"medium", "completed">>}

\* the i-th task of a stored collection
StoredTask(i, priority, status) ==
    [NewTask("Task " \o ToString(i), "You", priority) EXCEPT
        !.status = status,
        !.completed_date = IF status = "completed" THEN Timestamp(StartDay) ELSE None]

RenderCollections ==
    UNION { { [i \in 1..n |-> StoredTask(i, c[i][1], c[i][2])] :
                c \in [1..n -> TaskKinds] } : n \in 0..MaxTasks }

InitRender ==
    /\ ExtractIdle
    /\ IntentIdle
    /\ file \in { JsonFile(tasks) : tasks \in RenderCollections } \cup {OtherFile("missing")}
    /\ exec = [p \in Executors |-> IdleExec]
    /\ hist = NoHist
    /\ mpc = "idle"
    /\ all_tasks = <<>>
    /\ pending_tasks = <<>>
    /\ completed_tasks = <<>>
    /\ dpc = "idle"

NextRender == DashLoad

SpecRender == InitRender /\ [][NextRender]_vars

(***************************************************************************)
(* SpecRace: two callers of the executor, the dashboard and main.py, each  *)
(* acting once on the same tasks.json                                      *)
(***************************************************************************)
\* the call each caller makes
RaceCalls(p) ==
    IF p = "e1"
    THEN { [ref |-> IntRef(1), type |-> "reassign"],
           [ref |-> StrRef("review"), type |-> "reassign"] }
    ELSE { [ref |-> IntRef(1), type |-> "comment"],
           [ref |-> IntRef(2), type |-> "complete"] }

\* the rows of the pending list the user may act on
RaceDone == {0, 1}
RaceReminded == {1}
RaceOptions == {"1 day before"}

\* the user opens the dashboard once
DashOpen ==
    /\ dpc = "idle"
    /\ DashLoad

\* what a later extraction pass may write: fewer tasks, or another order
MainCollections ==
    { SubSeq(StoreTasks, 1, 1), <<StoreTasks[2], StoreTasks[1], StoreTasks[3]>> }

InitRace ==
    /\ ExtractIdle
    /\ IntentIdle
    /\ file = JsonFile(StoreTasks)
    /\ exec = [p \in Executors |-> [IdleExec EXCEPT !.n = MaxCalls - 1]]
    /\ hist = NoHist
    /\ mpc = "idle"
    /\ all_tasks = <<>>
    /\ pending_tasks = <<>>
    /\ completed_tasks = <<>>
    /\ dpc = "idle"

NextRace ==
    \/ \E p \in Executors : \E c \in RaceCalls(p) : \E kw \in Kwargs(c.type) :
         process_task_action(p, c.ref, c.type, kw.text, kw.hours, kw.author)
    \/ \E p \in Executors : Find(p)
    \/ \E p \in Executors : Load(p)
    \/ \E p \in Executors : Save(p)
    \/ DashOpen
    \/ \E i \in RaceDone : DashMarkDone(i)
    \/ \E i \in RaceReminded, option \in RaceOptions : DashSetReminder(i, option)
    \/ \E tasks \in MainCollections : Rewrite(tasks)

SpecRace == InitRace /\ [][NextRace]_vars

(***************************************************************************)
(* SpecSeq: the extraction pass, then executor and dashboard actions one   *)
(* after another, none starting while another is under way                 *)
(***************************************************************************)
SeqCollections == { SubSeq(StoreTasks, 1, 1), SubSeq(StoreTasks, 1, 2) }

SeqCalls ==
    { [ref |-> IntRef(1), type |-> "complete"],
      [ref |-> IntRef(1), type |-> "reassign"],
      [ref |-> StrRef("review"), type |-> "set_reminder"] }

SeqMessages == { "I'm done with this", "Help" }

SeqRows == {0, 1}

\* no executor action is under way
ExecutorAtRest == \A p \in Executors : exec[p].pc \in {"idle", "returned", "raised"}

\* main.py writes the tasks it extracted to a tasks.json that does not exist yet
SeqExtract(tasks) ==
    /\ file.kind = "missing"
    /\ ExecutorAtRest
    /\ dpc # "rendered"
    /\ Rewrite(tasks)

\* a caller starts an executor action while the dashboard script is not running
SeqAction(ref, action_type, text, hours, author) ==
    /\ dpc # "rendered"
    /\ process_task_action("e1", ref, action_type, text, hours, author)

\* a caller lets get_ai_response execute the suggested action
SeqChat(msg, task_ref) ==
    /\ dpc # "rendered"
    /\ get_ai_response("e1", "Review: Q3", msg, FALSE, <<>>, TRUE, task_ref)

\* the dashboard script starts a run while no executor action is under way
SeqOpen ==
    /\ ExecutorAtRest
    /\ DashLoad

InitSeq ==
    /\ ExtractIdle
    /\ IntentIdle
    /\ StoreIdle

NextSeq ==
    \/ \E tasks \in SeqCollections : SeqExtract(tasks)
    \/ \E c \in SeqCalls : \E kw \in Kwargs(c.type) :
         SeqAction(c.ref, c.type, kw.text, kw.hours, kw.author)
    \/ \E msg \in SeqMessages, task_ref \in {IntRef(0)} : SeqChat(msg, task_ref)
    \/ Find("e1")
    \/ Load("e1")
    \/ Save("e1")
    \/ SeqOpen
    \/ \E i \in SeqRows : DashMarkDone(i)
    \/ \E i \in SeqRows, option \in RaceOptions : DashSetReminder(i, option)
    \/ \E i \in SeqRows, msg \in SeqMessages, available \in BOOLEAN :
         \E rts \in (IF available THEN ChatRoots(msg) ELSE {<<>>}) :
            DashChatSend(i, msg, available, rts)
    \/ \E i \in SeqRows : DashChatComplete(i)

SpecSeq == InitSeq /\ [][NextSeq]_vars

(***************************************************************************)
(* Properties of extract_task                                              *)
(***************************************************************************)
\* the buffers of the call held in the state
ArgText == Lower(OrEmpty(content))
ArgSubjectText == Lower(OrEmpty(subject_or_channel))
ArgBuffer == ArgText \o " " \o ArgSubjectText

Holds(i) == EmailPred(i, ArgSubjectText, ArgBuffer)

\* the first branch of the email chain whose predicate holds, 0 if none
FirstEmailRule ==
    IF \E i \in 1..NumEmailRules : Holds(i)
    THEN CHOOSE i \in 1..NumEmailRules : Holds(i) /\ \A j \in 1..(i - 1) : ~Holds(j)
    ELSE 0

Returned == pc = "done" /\ ~ret.raised

RetFields == Fields(ret.val.task, ret.val.assignee, ret.val.deadline, ret.val.confidence)

\* C1: for source=email a returned result is the template of the first branch,
\* in chain order, whose predicate holds on the lower-cased buffer; a buffer
\* with both "revised document" and "invoice" yields the revised-document task.
C1_FirstRuleWins ==
    (Returned /\ source = "email") =>
        /\ FirstEmailRule # 0 =>
               RetFields = EmailTemplate(FirstEmailRule, subject_or_channel, now)
        /\ (Contains(ArgBuffer, "revised document") /\ Contains(ArgBuffer, "invoice")) =>
               RetFields = Fields("Send the revised document", "Ravindu", "Friday", "high")

C1_Witness ==
    /\ Returned /\ source = "email"
    /\ Contains(ArgBuffer, "revised document") /\ Contains(ArgBuffer, "invoice")
    /\ Holds(12) /\ FirstEmailRule = 1
    /\ ret.val.task = "Send the revised document"

\* no branch of the source's chain has a predicate that holds
NoRuleMatches ==
    \/ source = "email" /\ \A i \in 1..NumEmailRules : ~Holds(i)
    \/ source = "calendar" /\ ~CalendarPred(ArgText)
    \/ source = "slack" /\ ~SlackPred(1, ArgText) /\ ~SlackPred(2, ArgText)
    \/ source \notin {"email", "calendar", "slack"}

\* C2: when no rule of the source matches (email: no rule phrase, no
\* politeness marker, no no-task marker; any other source, known or not),
\* the call returns task absent, deadline absent and confidence "low".
C2_NoMatchIsEmpty ==
    (pc = "done" /\ NoRuleMatches) =>
        /\ ~ret.raised
        /\ ret.val.task = None
        /\ ret.val.deadline = None
        /\ ret.val.confidence = "low"

C2_Witness ==
    /\ pc = "done" /\ source = "email" /\ NoRuleMatches
    /\ content = "Hello team" /\ subject_or_channel = "Lunch on Friday"
    /\ ret.val.task = None

\* none of the specific category branches (1..23) holds
NoSpecificRule == \A i \in 1..(NoTaskRule - 1) : ~Holds(i)

\* C3 as stated: in the catch-all the politeness marker is tested first, so a
\* politeness marker always yields the "Review and respond" task
C3_PoliteFirst ==
    (pc = "done" /\ source = "email" /\ NoSpecificRule /\ Holds(PoliteRule)) =>
        \/ ret.raised
        \/ /\ ret.val.task = "Review and respond: " \o Slice50(subject_or_channel)
           /\ ret.val.confidence = "low"

\* C3 amended: in the catch-all the no-task markers ("no action", "fyi",
\* "digest", "resolved", "deployment") are tested first and force task absent
\* even when a politeness marker is present; the politeness marker yields
\* "Review and respond: " + subject[:50] (TypeError for a None subject) only
\* when no no-task marker is present.
C3_NoTaskFirst ==
    (pc = "done" /\ source = "email" /\ NoSpecificRule) =>
        IF Holds(NoTaskRule)
        THEN ~ret.raised /\ ret.val.task = None /\ ret.val.confidence = "low"
        ELSE IF Holds(PoliteRule)
        THEN IF subject_or_channel = None
             THEN ret = Raise("TypeError")
             ELSE /\ ~ret.raised
                  /\ ret.val.task = "Review and respond: " \o Slice50(subject_or_channel)
                  /\ ret.val.deadline = strftime(now + 2)
                  /\ ret.val.confidence = "low"
        ELSE ~ret.raised /\ ret.val.task = None

C3_Witness ==
    /\ pc = "done" /\ source = "email" /\ NoSpecificRule
    /\ Holds(NoTaskRule) /\ Holds(PoliteRule)
    /\ ~ret.raised /\ ret.val.task = None

\* some task-producing rule of the source has a predicate that holds
SomeTaskRuleHolds ==
    \/ source = "email" /\ \E i \in (1..NumEmailRules) \ {NoTaskRule} : Holds(i)
    \/ source = "calendar" /\ CalendarPred(ArgText)
    \/ source = "slack" /\ (SlackPred(1, ArgText) \/ SlackPred(2, ArgText))

\* the chain of the source selects a task-producing rule
TaskRuleSelected ==
    \/ source = "email"
       /\ \/ \E i \in 1..(NoTaskRule - 1) : Holds(i)
          \/ Holds(PoliteRule) /\ ~Holds(NoTaskRule)
    \/ source = "calendar" /\ CalendarPred(ArgText)
    \/ source = "slack" /\ (SlackPred(1, ArgText) \/ SlackPred(2, ArgText))

WellFormed ==
    /\ ret.val.confidence \in {"high", "medium", "low"}
    /\ ret.val.task = None => (ret.val.deadline = None /\ ret.val.confidence = "low")
    /\ ret.val.task # None => ret.val.deadline # None

\* C4 as stated: task is present iff some task rule of the source matched
C4_TaskIffRuleMatched ==
    Returned => (WellFormed /\ (ret.val.task # None <=> SomeTaskRuleHolds))

\* C4 amended: confidence is in {high, medium, low}; task absent implies
\* deadline absent and confidence low; task present implies deadline present;
\* and task is present iff a task rule matched that is not pre-empted by the
\* email no-task branch (a politeness marker counts only without a no-task
\* marker).
C4_TaskIffRuleSelected ==
    Returned => (WellFormed /\ (ret.val.task # None <=> TaskRuleSelected))

C4_Witness ==
    /\ Returned /\ source = "email"
    /\ SomeTaskRuleHolds /\ ~TaskRuleSelected
    /\ ret.val.task = None /\ ret.val.confidence = "low"

\* C6 as stated: the calendar rule is tested on content and subject together
C6_CalendarBuffer ==
    (pc = "done" /\ source = "calendar") =>
        /\ ~ret.raised
        /\ IF Contains(ArgBuffer, "prepare")
           THEN RetFields = Fields("Prepare meeting summary", "You", strftime(now + 1), "high")
           ELSE ret.val.task = None

\* C6 amended: for source=calendar the rule is tested on the lower-cased
\* content only: content containing "prepare" yields "Prepare meeting
\* summary", high, today + 1 day; otherwise task is absent, also when only
\* subjectOrChannel contains "prepare".
C6_CalendarContentOnly ==
    (pc = "done" /\ source = "calendar") =>
        /\ ~ret.raised
        /\ IF Contains(ArgText, "prepare")
           THEN RetFields = Fields("Prepare meeting summary", "You", strftime(now + 1), "high")
           ELSE ret.val.task = None /\ ret.val.deadline = None

C6_Witness ==
    /\ pc = "done" /\ source = "calendar"
    /\ ~Contains(ArgText, "prepare") /\ Contains(ArgSubjectText, "prepare")
    /\ ret.val.task = None

(***************************************************************************)
(* Properties of the audit log (Spec)                                      *)
(***************************************************************************)
\* C5: a call's outcome equals the outcome of the same call at the same clock
\* value with an empty confirmed_tasks, whatever calls came before; the call
\* appends exactly one entry when it returns a present task and none otherwise,
\* and nothing else changes the list.
C5_LogNeverInfluences ==
    [][ IF pc = "call" /\ pc' = "done"
        THEN /\ ret' = extract_task(content, source, subject_or_channel, now, <<>>).outcome
             /\ Len(confirmed_tasks') = Len(confirmed_tasks)
                    + (IF ~ret'.raised /\ ret'.val.task # None THEN 1 ELSE 0)
             /\ SubSeq(confirmed_tasks', 1, Len(confirmed_tasks)) = confirmed_tasks
        ELSE confirmed_tasks' = confirmed_tasks ]_vars

C5_Witness ==
    /\ pc = "done"
    /\ Len(confirmed_tasks) = 2
    /\ confirmed_tasks[1] = confirmed_tasks[2]
    /\ ret.val.task = confirmed_tasks[1].task

(***************************************************************************)
(* Properties of the intent classifier (SpecIntent)                        *)
(***************************************************************************)
MsgText == Lower(user_message)

Answered == ipc = "done" /\ resp # NoResp

GroupHolds(g) == AnyIn(RuleKeywords(g), MsgText)

\* the first keyword group of the rule-based order with a keyword in the message
FirstGroup ==
    IF \E g \in 1..NumRuleGroups : GroupHolds(g)
    THEN CHOOSE g \in 1..NumRuleGroups : GroupHolds(g) /\ \A h \in 1..(g - 1) : ~GroupHolds(h)
    ELSE 0

GroupAction(g) ==
    CASE g = 1 -> "complete" [] g = 2 -> "guide" [] g = 3 -> "send"
      [] g = 4 -> "schedule" [] g = 5 -> "reassign" [] OTHER -> "acknowledge"

\* C7: TaskAgent.get_response returns the action of the first keyword group
\* (completion, help, send, schedule, reassignment) with a keyword in the
\* lower-cased message, "acknowledge" when none matches; a message containing
\* "done" yields "complete" whatever else matches.
C7_FirstGroupWins ==
    (Answered /\ agent_class = "TaskAgent") =>
        /\ resp.action = GroupAction(FirstGroup)
        /\ Contains(MsgText, "done") => resp.action = "complete"

C7_Witness ==
    /\ Answered /\ agent_class = "TaskAgent"
    /\ Contains(MsgText, "done") /\ GroupHolds(2) /\ GroupHolds(3)
    /\ resp.action = "complete"

Actions == {"complete", "guide", "send", "schedule", "reassign", "acknowledge"}

ConfidenceOf(a) ==
    CASE a = "complete" -> "high" [] a = "guide" -> "medium" [] a = "send" -> "high"
      [] a = "schedule" -> "medium" [] a = "reassign" -> "medium"
      [] a = "acknowledge" -> "low" [] OTHER -> None

\* C8: under either strategy the returned action is one of the six action
\* tokens and the confidence is the fixed function of the action.
C8_ActionConfidence ==
    Answered =>
        /\ resp.action \in Actions
        /\ resp.confidence = ConfidenceOf(resp.action)

C8_Witness ==
    /\ Answered /\ agent_class = "NLPAgent" /\ nlp
    /\ roots # <<>> /\ roots[1] = "approve"
    /\ ~\E g \in 1..NumNLPGroups : AnyIn(NLPKeywords(g), MsgText)
    /\ resp.action = "acknowledge" /\ resp.confidence = "low"

\* the enhanced strategy consults the root verb: backend loaded, no keyword
\* list of _extract_intent matches
RootConsulted ==
    /\ agent_class = "NLPAgent" /\ nlp
    /\ ~\E g \in 1..NumNLPGroups : AnyIn(NLPKeywords(g), MsgText)

\* the first reported root verb that belongs to the vocabulary, None if none
FirstVocabRoot ==
    IF \E k \in 1..Len(roots) : roots[k] \in RootVocabulary
    THEN roots[CHOOSE k \in 1..Len(roots) :
                   roots[k] \in RootVocabulary /\ \A j \in 1..(k - 1) : roots[j] \notin RootVocabulary]
    ELSE None

\* C9: in the enhanced strategy, when no keyword group matches and the backend
\* reports a root verb of the vocabulary, the returned action is the one mapped
\* from that verb and not the default "acknowledge".
C9_RootVerbMapped ==
    (Answered /\ RootConsulted /\ FirstVocabRoot # None) =>
        /\ resp.action # "acknowledge"
        /\ FirstVocabRoot \in Actions => resp.action = FirstVocabRoot

RuleBased == TaskAgent_get_response(task_description, user_message)

\* C10 as stated: NLPAgent.get_response returns the action and confidence of
\* TaskAgent.get_response for every message, backend state and root verb
C10_Equivalent ==
    (Answered /\ agent_class = "NLPAgent") =>
        /\ resp.action = RuleBased.action
        /\ resp.confidence = RuleBased.confidence

\* C10 amended: NLPAgent.get_response returns the action and confidence of
\* TaskAgent.get_response, except when the backend is available, no keyword
\* list of _extract_intent matches and the first root verb of the vocabulary
\* is "complete": then it returns "complete" with confidence "high".
C10_EquivalentUnlessRootComplete ==
    (Answered /\ agent_class = "NLPAgent") =>
        IF RootConsulted /\ FirstVocabRoot = "complete"
        THEN resp.action = "complete" /\ resp.confidence = "high"
        ELSE resp.action = RuleBased.action /\ resp.confidence = RuleBased.confidence

C10_Witness ==
    /\ Answered /\ agent_class = "NLPAgent"
    /\ RootConsulted /\ FirstVocabRoot = "complete"
    /\ RuleBased.action = "acknowledge"
    /\ resp.action = "complete"

(***************************************************************************)
(* Error handling of extract_task (SpecExtract)                            *)
(***************************************************************************)
\* C17: extract_task never raises: for every content, source and
\* subjectOrChannel, a None subject included, the call returns a candidate
\* whose confidence is one of the three tiers.
C17_NeverRaises ==
    pc = "done" =>
        /\ ~ret.raised
        /\ ret.val.confidence \in {"high", "medium", "low"}

(***************************************************************************)
(* Properties of the executor (SpecStore)                                  *)
(***************************************************************************)
\* the call of the single caller
Current == exec["e1"]

\* the collection the store held when the call began
Before == load_tasks(Current.before).val

InRange(n, tasks) == 0 <= n /\ n < Len(tasks)

DescribedBy(q, tasks) == \E i \in 1..Len(tasks) : Contains(Lower(tasks[i].task), Lower(q))

\* the reference names nothing: an index outside 0..len-1, or a text that
\* no description contains (and that is not a position written as a string)
RefersToNothing(ref, tasks) ==
    \/ ref.kind = "int" /\ ~InRange(ref.n, tasks)
    \/ /\ ref.kind = "str"
       /\ ~DescribedBy(ref.s, tasks)
       /\ ~(ParseInt(ref.s).ok /\ InRange(ParseInt(ref.s).n, tasks))

ExecutorMethods == {"mark_complete", "set_reminder", "reassign", "add_comment"}

\* C11: an executor action whose reference resolves to nothing (index
\* outside 0..len-1, or text contained in no description) on a readable
\* store never raises and never reaches the write, leaves tasks.json as it
\* was, and returns {success: False, message: "Task not found"}
C11_NotFoundIsFailure ==
    ( /\ Current.call.method \in ExecutorMethods
      /\ Current.before.kind # "unreadable"
      /\ RefersToNothing(Current.call.ref, Before) )
    => /\ Current.pc \in {"find", "returned"}
       /\ file = Current.before
       /\ ~Current.wrote
       /\ Current.pc = "returned" =>
             /\ Current.result.success = FALSE
             /\ Current.result.message = "Task not found"

\* a text reference found in none of three stored tasks has been answered
C11_Witness ==
    /\ Current.pc = "returned"
    /\ Current.call.method = "reassign"
    /\ Current.call.ref = StrRef("zzz")
    /\ Len(Before) = 3
    /\ Current.result.message = "Task not found"
    /\ file = Current.before

(***************************************************************************)
(* Properties of _find_task_index (SpecResolve)                            *)
(***************************************************************************)
\* _find_task_index has returned
Resolved == Current.pc \in {"load", "returned"}

\* its return value
ResolvedIndex == IF Current.pc = "load" THEN Current.idx ELSE NoIndex

\* idx is the lowest position whose description contains q, NoIndex if none
LowestDescribed(idx, q, tasks) ==
    IF DescribedBy(q, tasks)
    THEN /\ InRange(idx, tasks)
         /\ Contains(Lower(tasks[idx + 1].task), Lower(q))
         /\ \A j \in 1..idx : ~Contains(Lower(tasks[j].task), Lower(q))
    ELSE idx = NoIndex

\* the integer a reference denotes, when it is an int or a str that parses
Denotes(ref) ==
    IF ref.kind = "int" THEN [ok |-> TRUE, n |-> ref.n] ELSE ParseInt(ref.s)

\* C12: a reference given as an index (an int, or a str that parses as an
\* int) resolves to that position iff it lies in 0..len-1 and to nothing
\* otherwise; any other reference resolves to the lowest position whose
\* description contains it case-insensitively, to nothing if there is none
C12_IndexOrText ==
    Resolved =>
        IF Denotes(Current.call.ref).ok
        THEN IF InRange(Denotes(Current.call.ref).n, Before)
             THEN ResolvedIndex = Denotes(Current.call.ref).n
             ELSE ResolvedIndex = NoIndex
        ELSE LowestDescribed(ResolvedIndex, Current.call.ref.s, Before)

\* C12 (amended): an int resolves to that position iff it lies in 0..len-1
\* and to nothing otherwise; a str that parses as an int in 0..len-1
\* resolves to that position; every other str, a number out of range
\* included, resolves to the lowest position whose description contains it
\* case-insensitively, to nothing if there is none
C12_IndexThenText ==
    Resolved =>
        LET ref == Current.call.ref
        IN  IF ref.kind = "int"
            THEN IF InRange(ref.n, Before) THEN ResolvedIndex = ref.n
                 ELSE ResolvedIndex = NoIndex
            ELSE IF ParseInt(ref.s).ok /\ InRange(ParseInt(ref.s).n, Before)
                 THEN ResolvedIndex = ParseInt(ref.s).n
                 ELSE LowestDescribed(ResolvedIndex, ref.s, Before)

\* the string "3" on a store of two tasks has resolved to "Review: Q3"
C12_Witness ==
    /\ Resolved
    /\ Current.call.ref = StrRef("3")
    /\ Len(Before) = 2
    /\ ResolvedIndex = 0

(***************************************************************************)
(* Properties of process_task_action (SpecStore)                           *)
(***************************************************************************)
KnownActionTypes == {"complete", "set_reminder", "reassign", "comment"}

\* C13: process_task_action with an action_type outside {complete,
\* set_reminder, reassign, comment} enters no executor method, returns
\* {success: False, message: "Unknown action"} and leaves tasks.json as it
\* was, whatever the reference and the store are
C13_UnknownAction ==
    ( /\ Current.api = "process_task_action"
      /\ Current.token \notin KnownActionTypes )
    => /\ Current.pc = "returned"
       /\ Current.call.method = "none"
       /\ Current.result.success = FALSE
       /\ Current.result.message = "Unknown action"
       /\ ~Current.wrote
       /\ file = Current.before

\* "archive" has been asked for a reference that names a stored task
C13_Witness ==
    /\ Current.pc = "returned"
    /\ Current.api = "process_task_action"
    /\ Current.token = "archive"
    /\ Current.call.ref = IntRef(1)
    /\ Len(Before) = 3
    /\ Current.result.message = "Unknown action"

(***************************************************************************)
(* Properties of get_ai_response (SpecChat)                                *)
(***************************************************************************)
\* get_ai_response has returned a response with an "executed" entry for a
\* reference that names a task of a readable store
ExecutedOnTask ==
    /\ Current.pc = "returned"
    /\ Current.api = "get_ai_response"
    /\ Current.result.message # None
    /\ Current.before.kind # "unreadable"
    /\ ~RefersToNothing(Current.call.ref, Before)

\* positions at which two collections of the same length differ
ChangedPositions(old, new) == { i \in 1..Len(old) : old[i] # new[i] }

\* the store holds the old collection with at most the resolved entry changed
OnlyResolvedChanged ==
    /\ file.kind = "json"
    /\ Len(file.data) = Len(Before)
    /\ ChangedPositions(Before, file.data) \subseteq {Current.idx + 1}

ClassifierTokens == {"complete", "guide", "send", "schedule", "reassign", "acknowledge"}

\* C14: with auto_execute=True and a resolvable task_ref, get_ai_response
\* applies one mutation to the stored collection for every action token and
\* reports it as a success in resp["executed"]
C14_EveryTokenMutates ==
    ExecutedOnTask =>
        /\ Current.token \in ClassifierTokens
        /\ Current.result.success
        /\ Current.wrote
        /\ OnlyResolvedChanged

\* C14 (amended): with auto_execute=True and a resolvable task_ref the
\* tokens complete, schedule, send and reassign each apply their one
\* mutation to the resolved entry (completed with the message as note, a
\* 1-hour reminder, a "Sent by agent: " comment, the owner set to the last
\* word of the message) and report success; guide and acknowledge apply no
\* mutation and report {success: False, "No execution rule for action"}
C14_FourTokensMutate ==
    ExecutedOnTask =>
        /\ Current.token \in ClassifierTokens
        /\ IF Current.token \in {"guide", "acknowledge"}
           THEN /\ Current.result.success = FALSE
                /\ Current.result.message = "No execution rule for action"
                /\ ~Current.wrote
                /\ file = Current.before
           ELSE /\ Current.result.success
                /\ Current.wrote
                /\ OnlyResolvedChanged
                /\ LET old == Before[Current.idx + 1]
                       new == file.data[Current.idx + 1]
                   IN  CASE Current.token = "complete" ->
                              /\ new.status = "completed"
                              /\ Len(new.agent_notes) = Len(old.agent_notes) + 1
                              /\ new.agent_notes[Len(new.agent_notes)].note = Current.msg
                         [] Current.token = "schedule" ->
                              /\ new.reminder_hours = <<1>>
                              /\ new.reminder = "1 hour(s) before"
                         [] Current.token = "send" ->
                              /\ Len(new.comments) = Len(old.comments) + 1
                              /\ new.comments[Len(new.comments)].author = "agent"
                              /\ new.comments[Len(new.comments)].comment =
                                     "Sent by agent: " \o Current.msg
                         [] Current.token = "reassign" ->
                              /\ new.owner = LastToken(Current.msg)

\* "Help" (token guide) has been executed for the first of three tasks
C14_Witness ==
    /\ ExecutedOnTask
    /\ Len(Before) = 3
    /\ Current.token = "guide"
    /\ Current.call.ref = IntRef(0)
    /\ Current.result.message = "No execution rule for action"

(***************************************************************************)
(* Frame of the executor actions (SpecStore)                               *)
(***************************************************************************)
Descriptions(tasks) == [i \in 1..Len(tasks) |-> tasks[i].task]

\* a step that changes tasks.json is the write of a successful action, and
\* it changes the entry at the resolved index and nothing else
OneEntryChanged ==
    (file' # file) =>
        /\ file.kind = "json"
        /\ file'.kind = "json"
        /\ exec'["e1"].pc = "returned"
        /\ exec'["e1"].result.success
        /\ exec'["e1"].call.method \in ExecutorMethods
        /\ Len(file'.data) = Len(file.data)
        /\ Descriptions(file'.data) = Descriptions(file.data)
        /\ ChangedPositions(file.data, file'.data) = {exec'["e1"].idx + 1}

\* C15: every successful executor action changes exactly one entry of the
\* stored collection, the one at the resolved index; over any sequence of
\* calls the length and the order of the descriptions stay the same, the
\* other entries are unchanged and no entry is deleted
C15_OneEntryChanged == [][OneEntryChanged]_vars

\* two successful actions have changed two different entries of three, and
\* the third entry and all descriptions are as they were
C15_Witness ==
    /\ Current.n = 2
    /\ Current.pc = "returned"
    /\ Current.result.success
    /\ file.kind = "json"
    /\ Len(file.data) = 3
    /\ Descriptions(file.data) = Descriptions(StoreTasks)
    /\ Cardinality(ChangedPositions(StoreTasks, file.data)) = 2

(***************************************************************************)
(* Malformed storage (SpecStore)                                           *)
(***************************************************************************)
\* C19: when tasks.json is missing, unreadable or not valid JSON, the
\* collection is read as empty without raising, so every executor action
\* returns the "Task not found" failure and does not write, and the store
\* is left as it was
C19_MalformedIsEmpty ==
    ( /\ Current.call.method \in ExecutorMethods
      /\ Current.before.kind \in {"missing", "unreadable", "garbage"} )
    => /\ Current.pc \in {"find", "returned"}
       /\ ~Current.wrote
       /\ file = Current.before
       /\ Current.pc = "returned" =>
             /\ Current.result.success = FALSE
             /\ Current.result.message = "Task not found"

(***************************************************************************)
(* Properties of the dashboard lists (SpecRender)                          *)
(***************************************************************************)
\* rank of a listed task: high < medium < low < any other value; a task
\* without a priority ranks as low
Rank(t) ==
    IF t.priority = "high" THEN 0
    ELSE IF t.priority = "medium" THEN 1
    ELSE IF t.priority \in {"low", Absent} THEN 2
    ELSE 3

\* C18: in the rendered pending list no task is preceded by a task of
\* strictly lower priority rank (high < medium < low < any other value),
\* tasks of equal rank keep their collection order, each listed task
\* carries its original collection index, every pending task is listed
\* once, and completed tasks never appear
C18_PendingSorted ==
    dpc = "rendered" =>
        /\ \A k, l \in 1..Len(pending_tasks) :
              k < l =>
                 /\ Rank(pending_tasks[k].task) <= Rank(pending_tasks[l].task)
                 /\ Rank(pending_tasks[k].task) = Rank(pending_tasks[l].task)
                       => pending_tasks[k].index < pending_tasks[l].index
        /\ \A k \in 1..Len(pending_tasks) :
              /\ InRange(pending_tasks[k].index, all_tasks)
              /\ pending_tasks[k].task = all_tasks[pending_tasks[k].index + 1]
              /\ pending_tasks[k].task.status = "pending"
        /\ \A i \in 1..Len(all_tasks) :
              all_tasks[i].status = "pending"
                 => \E k \in 1..Len(pending_tasks) : pending_tasks[k].index = i - 1
        /\ \A k \in 1..Len(completed_tasks) : completed_tasks[k].status = "completed"

\* a low, a completed and a high task have been rendered: the high task,
\* stored last, is listed first with its index 2
C18_Witness ==
    /\ dpc = "rendered"
    /\ Len(all_tasks) = 3
    /\ all_tasks[1].priority = "low" /\ all_tasks[1].status = "pending"
    /\ all_tasks[2].status = "completed"
    /\ all_tasks[3].priority = "high" /\ all_tasks[3].status = "pending"
    /\ Len(pending_tasks) = 2
    /\ pending_tasks[1].index = 2
    /\ pending_tasks[2].index = 0

(***************************************************************************)
(* Interleaved read-modify-write actions (SpecRace)                        *)
(***************************************************************************)
\* the writers that read tasks.json, change one entry and write it back
Updaters == Executors \cup {"dash"}

\* the collection every writer of the race starts from
RaceTasks == StoreTasks

\* writer w has written and reported success
Succeeded(w) ==
    IF w = "dash" THEN dpc = "saved"
    ELSE exec[w].pc = "returned" /\ exec[w].wrote /\ exec[w].result.success

\* the change of writer w applied to a collection
ChangeOf(w, tasks) ==
    IF w = "dash" THEN DashChange(hist.click, tasks, now)
    ELSE Mutate(exec[w].call, tasks, exec[w].idx, now)

\* p and q are the only writers so far, both succeeded, p wrote last
LastOfTwo(p, q) ==
    /\ p # q
    /\ hist.written = {p, q}
    /\ hist.last = p
    /\ Succeeded(p)
    /\ Succeeded(q)

\* C16: when two read-modify-write actions both read the collection before
\* either writes, both report success and tasks.json holds the later
\* writer's change only (the collection both read with that one change);
\* when the later writer reads after the earlier one has written, both
\* changes are present
C16_LastWriteWins ==
    \A p, q \in Updaters :
        LastOfTwo(p, q) =>
            IF q \notin hist.seen[p]
            THEN file = JsonFile(ChangeOf(p, RaceTasks))
            ELSE file = JsonFile(ChangeOf(p, ChangeOf(q, RaceTasks)))

\* e1 reassigned task 1 to Bob and e2 then wrote its comment on the copy it
\* had read before: both report success and the owner is still Ravindu
C16_Witness ==
    /\ LastOfTwo("e2", "e1")
    /\ "e1" \notin hist.seen["e2"]
    /\ exec["e1"].call.method = "reassign"
    /\ exec["e1"].idx = 1
    /\ exec["e2"].call.method = "add_comment"
    /\ file.data[2].owner = "Ravindu"
    /\ Len(file.data[2].comments) = 1

\* C20: in every interleaving with other writers an executor action never
\* raises, and the entry it mutates is the entry its reference resolved to
C20_MutatesResolvedEntry ==
    \A p \in Executors :
        /\ exec[p].pc # "raised"
        /\ exec[p].touched # None => exec[p].touched = exec[p].resolved

(***************************************************************************)
(* Task status over sequences of actions (SpecSeq)                         *)
(***************************************************************************)
\* the stored collection
Stored == load_tasks(file).val

\* every stored status is pending or completed, and a dashboard run that
\* has rendered shows Total = Completed + Pending
StatusWellFormed ==
    /\ \A i \in 1..Len(Stored) : Stored[i].status \in {"pending", "completed"}
    /\ dpc = "rendered" =>
          Len(all_tasks) = Len(completed_tasks) + Len(pending_tasks)

\* the step of the extraction pass writes pending tasks only; any other
\* step keeps the tasks in place and keeps every completed task completed
StaysCompleted ==
    IF mpc' # mpc
    THEN \A i \in 1..Len(Stored') : Stored'[i].status = "pending"
    ELSE /\ Len(Stored') = Len(Stored)
         /\ \A i \in 1..Len(Stored) :
               /\ Stored'[i].task = Stored[i].task
               /\ Stored[i].status = "completed" => Stored'[i].status = "completed"

\* C21: under sequential execution every task the extraction pass writes
\* starts pending, every stored status is pending or completed, a task
\* that is completed stays completed through every executor action and
\* dashboard action, and the dashboard's Total equals Completed + Pending
C21_StatusMonotonic == []StatusWellFormed /\ [][StaysCompleted]_vars

\* the task at index 1 was completed and has then been reassigned to Bob by
\* a later executor action, and is still completed
C21_Witness ==
    /\ Current.pc = "returned"
    /\ Current.call.method = "reassign"
    /\ Current.wrote
    /\ Current.idx = 1
    /\ Before[2].status = "completed"
    /\ Stored[2].status = "completed"
    /\ Stored[2].owner = "Bob"
    /\ Stored[1].status = "pending"

====
